---- MODULE Spec2Model ----
(***************************************************************************)
(* Model of the rotation subsystem of diffgeom: the discrete rotation      *)
(* groups Rotation2i (4 elements) and Rotation3i (24 elements), the        *)
(* derivation of the Rotation3i inverse and composition tables by          *)
(* exhaustive search, and the conversions to the continuous rotations      *)
(* Rotation2 (tangent of the half angle) and Rotation3 (quaternion).       *)
(*                                                                         *)
(* Scalars (f32) are modelled as IEEE-754 single precision values: a     *)
(* 24-bit signed mantissa and a binary exponent, with the infinities and   *)
(* NaN.  Every operation computes the exact result and rounds it to        *)
(* nearest, ties to even.                                                  *)
(***************************************************************************)
EXTENDS Integers, Sequences, FiniteSets, TLC

\* Largest absolute value of a coordinate of the integer vectors drawn as inputs.
MaxCoord == 2

\* Number of bits of the integers that stand for i32 and u32 in Box2i.
IntBits == 3

(***************************************************************************)
(* Scalar = f32 (IEEE-754 binary32)                                        *)
(*                                                                         *)
(* A scalar is <<m, e>> and stands for m * 2^e.  A normal value has        *)
(* 2^23 <= |m| < 2^24 and F_EMIN <= e <= F_EMAX, a subnormal one has       *)
(* |m| < 2^23 and e = F_EMIN, zero is <<0, 0>> (the sign of zero is not    *)
(* kept).  <<1, F_ESPECIAL>> and <<-1, F_ESPECIAL>> are the infinities and *)
(* <<0, F_ESPECIAL>> is NaN.  Every operation rounds the exact result to   *)
(* nearest, ties to even.                                                  *)
(***************************************************************************)
F_MANT == 24
F_EMIN == -149
F_EMAX == 104
F_ESPECIAL == 1000

F_ZERO == <<0, 0>>
F_ONE == <<2^23, -23>>
F_HALF == <<2^23, -24>>
F_TWO == <<2^23, -22>>
F_INF == <<1, F_ESPECIAL>>
F_NAN == <<0, F_ESPECIAL>>

IAbs(n) == IF n < 0 THEN -n ELSE n
ISign(n) == IF n < 0 THEN -1 ELSE 1

RECURSIVE BitLen(_)
BitLen(M) == IF M = 0 THEN 0 ELSE 1 + BitLen(M \div 2)

IsNaN(x) == x = F_NAN
IsInf(x) == x[2] = F_ESPECIAL /\ x[1] # 0
IsZero(x) == x[1] = 0 /\ x[2] # F_ESPECIAL

\* The scalar of sign s and magnitude q * 2^e, q already rounded.
FPack(s, q, e) ==
    IF q = 0 THEN F_ZERO
    ELSE IF e > F_EMAX THEN <<s, F_ESPECIAL>>
    ELSE <<s * q, e>>

\* Rounds the magnitude (M + f) * 2^E, where 0 <= f < 1 and sticky tells
\* whether f > 0, to a scalar of sign s.  With sticky, M has at least 26 bits.
FRound(s, M, E, sticky) ==
    IF M = 0 THEN F_ZERO
    ELSE
        LET n == BitLen(M)
            k0 == n - F_MANT
            k == IF E + k0 < F_EMIN THEN F_EMIN - E ELSE k0
        IN  IF k <= 0 THEN FPack(s, M * 2^(-k), E + k)
            ELSE IF k > n THEN F_ZERO
            ELSE
                LET q == M \div 2^k
                    r == M % 2^k
                    half == 2^(k - 1)
                    up == r > half \/ (r = half /\ (sticky \/ q % 2 = 1))
                    q2 == IF up THEN q + 1 ELSE q
                IN  IF q2 = 2^F_MANT THEN FPack(s, 2^(F_MANT - 1), E + k + 1)
                                     ELSE FPack(s, q2, E + k)

\* A finite non-zero scalar with its mantissa brought to 24 bits.
RECURSIVE Normalize(_, _)
Normalize(m, e) ==
    IF IAbs(m) >= 2^(F_MANT - 1) THEN <<m, e>> ELSE Normalize(2 * m, e - 1)

FNormal(x) == Normalize(x[1], x[2])

\* An integer as a scalar.
IntoScalar(k) == FRound(ISign(k), IAbs(k), 0, FALSE)

FNeg(x) == <<-x[1], x[2]>>
FAbs(x) == <<IAbs(x[1]), x[2]>>

\* x < y on magnitudes (non-negative scalars, no NaN).
MagLt(x, y) ==
    IF IsZero(y) THEN FALSE
    ELSE IF IsZero(x) THEN TRUE
    ELSE
        LET lx == x[2] + BitLen(x[1])
            ly == y[2] + BitLen(y[1])
        IN  IF lx # ly THEN lx < ly
            ELSE IF IsInf(x) THEN FALSE
            ELSE FNormal(x)[1] < FNormal(y)[1]

FLt(x, y) ==
    IF IsNaN(x) \/ IsNaN(y) THEN FALSE
    ELSE IF x[1] < 0
      THEN IF y[1] < 0 THEN MagLt(FAbs(y), FAbs(x)) ELSE TRUE
      ELSE IF y[1] < 0 THEN FALSE ELSE MagLt(x, y)

FEq(x, y) == ~IsNaN(x) /\ ~IsNaN(y) /\ x = y
FLe(x, y) == FLt(x, y) \/ FEq(x, y)
FGt(x, y) == FLt(y, x)
FGe(x, y) == FLe(y, x)

FAdd(x, y) ==
    IF IsNaN(x) \/ IsNaN(y) THEN F_NAN
    ELSE IF IsInf(x) THEN (IF IsInf(y) /\ y # x THEN F_NAN ELSE x)
    ELSE IF IsInf(y) THEN y
    ELSE IF IsZero(x) THEN y
    ELSE IF IsZero(y) THEN x
    ELSE
        LET a == IF x[2] >= y[2] THEN x ELSE y
            b == IF x[2] >= y[2] THEN y ELSE x
            d == a[2] - b[2]
        IN  IF d <= 6
              THEN LET S == a[1] * 2^d + b[1]
                   IN  FRound(ISign(S), IAbs(S), b[2], FALSE)
              ELSE LET A == IAbs(a[1]) * 64
                       sh == d - 6
                       Bq == IF sh >= 25 THEN 0 ELSE IAbs(b[1]) \div 2^sh
                       sticky == IF sh >= 25 THEN TRUE ELSE IAbs(b[1]) % 2^sh # 0
                       M == IF ISign(a[1]) = ISign(b[1])
                              THEN A + Bq
                              ELSE A - Bq - (IF sticky THEN 1 ELSE 0)
                   IN  FRound(ISign(a[1]), M, a[2] - 6, sticky)

FSub(x, y) == FAdd(x, FNeg(y))

\* The product, through 12-bit limbs so that no intermediate value leaves the
\* 32-bit range.
FMul(x, y) ==
    IF IsNaN(x) \/ IsNaN(y) THEN F_NAN
    ELSE IF IsInf(x) \/ IsInf(y)
      THEN (IF IsZero(x) \/ IsZero(y) THEN F_NAN
            ELSE <<ISign(x[1]) * ISign(y[1]), F_ESPECIAL>>)
    ELSE IF IsZero(x) \/ IsZero(y) THEN F_ZERO
    ELSE
        LET nx == FNormal(x)
            ny == FNormal(y)
            a == IAbs(nx[1])
            b == IAbs(ny[1])
            a1 == a \div 4096
            a0 == a % 4096
            b1 == b \div 4096
            b0 == b % 4096
            cross == a1 * b0 + a0 * b1
            low == (cross % 4096) * 4096 + a0 * b0
            hi == a1 * b1 + (cross \div 4096) + (low \div 2^24)
            lowr == low % 2^24
        IN  FRound(ISign(x[1]) * ISign(y[1]), hi * 64 + (lowr \div 2^18),
                   nx[2] + ny[2] + 18, lowr % 2^18 # 0)

\* Long division: n more quotient bits of r / b, as <<bits, remainder>>.
RECURSIVE FracBits(_, _, _, _)
FracBits(acc, r, b, n) ==
    IF n = 0 THEN <<acc, r>>
    ELSE IF 2 * r >= b THEN FracBits(2 * acc + 1, 2 * r - b, b, n - 1)
                       ELSE FracBits(2 * acc, 2 * r, b, n - 1)

FDiv(x, y) ==
    IF IsNaN(x) \/ IsNaN(y) THEN F_NAN
    ELSE IF IsInf(x)
      THEN (IF IsInf(y) THEN F_NAN ELSE <<ISign(x[1]) * ISign(y[1]), F_ESPECIAL>>)
    ELSE IF IsInf(y) THEN F_ZERO
    ELSE IF IsZero(y)
      THEN (IF IsZero(x) THEN F_NAN ELSE <<ISign(x[1]) * ISign(y[1]), F_ESPECIAL>>)
    ELSE IF IsZero(x) THEN F_ZERO
    ELSE
        LET nx == FNormal(x)
            ny == FNormal(y)
            a == IAbs(nx[1])
            b == IAbs(ny[1])
            fb == FracBits(a \div b, a % b, b, 26)
        IN  FRound(ISign(x[1]) * ISign(y[1]), fb[1], nx[2] - ny[2] - 26, fb[2] # 0)

\* Square root digit by digit: k more digits of the root, from the pairs of
\* bits of m (13 of them, from the top) and then 14 pairs of zeros;
\* <<root, remainder>>.
RECURSIVE SqrtBits(_, _, _, _)
SqrtBits(root, rem, m, k) ==
    IF k = 0 THEN <<root, rem>>
    ELSE
        LET pair == IF k > 14 THEN (m \div 4^(k - 15)) % 4 ELSE 0
            r2 == 4 * rem + pair
            t == 4 * root + 1
        IN  IF r2 >= t THEN SqrtBits(2 * root + 1, r2 - t, m, k - 1)
                       ELSE SqrtBits(2 * root, r2, m, k - 1)

FSqrt(x) ==
    IF IsNaN(x) THEN F_NAN
    ELSE IF IsZero(x) THEN F_ZERO
    ELSE IF x[1] < 0 THEN F_NAN
    ELSE IF IsInf(x) THEN x
    ELSE
        LET nx == FNormal(x)
            odd == nx[2] % 2 = 1
            m == IF odd THEN 2 * nx[1] ELSE nx[1]
            e == IF odd THEN nx[2] - 1 ELSE nx[2]
            sb == SqrtBits(0, 0, m, 27)
        IN  FRound(1, sb[1], (e \div 2) - 14, sb[2] # 0)

\* Rotation2::NORMAL_THRESHOLD, 1e18 in f32.
NORMAL_THRESHOLD == <<14551915, 36>>

\* f32::EPSILON, and the tolerances written in the tests (as f32 literals).
EPSILON == <<2^23, -46>>
F_1EM6 == <<8796093, -43>>
F_1EM3 == <<8589935, -33>>

\* approx::RelativeEq for f32.
ScalarRelativeEq(a, b, epsilon, max_relative) ==
    IF FEq(a, b) THEN TRUE
    ELSE IF IsInf(a) \/ IsInf(b) THEN FALSE
    ELSE
        LET abs_diff == FAbs(FSub(a, b))
            largest == IF FGt(FAbs(b), FAbs(a)) THEN FAbs(b) ELSE FAbs(a)
        IN  \/ FLe(abs_diff, epsilon)
            \/ FLe(abs_diff, FMul(largest, max_relative))

\* approx::AbsDiffEq for f32.
ScalarAbsDiffEq(a, b, epsilon) == FLe(FAbs(FSub(a, b)), epsilon)

VecRelativeEq(u, v, epsilon, max_relative) ==
    /\ Len(u) = Len(v)
    /\ \A n \in 1..Len(u) : ScalarRelativeEq(u[n], v[n], epsilon, max_relative)

VecAbsDiffEq(u, v, epsilon) ==
    /\ Len(u) = Len(v)
    /\ \A n \in 1..Len(u) : ScalarAbsDiffEq(u[n], v[n], epsilon)

(***************************************************************************)
(* Rotation3i: the 24 variants, by discriminant                            *)
(***************************************************************************)
XpYpZp == 0
YpXpZn == 1
YnXpZp == 2
XnYpZn == 3
XnYnZp == 4
YnXnZn == 5
YpXnZp == 6
XpYnZn == 7
ZpXpYp == 8
XpZnYp == 9
XnZpYp == 10
ZnXpYn == 11
ZnXnYp == 12
XnZnYn == 13
XpZpYn == 14
ZpXnYn == 15
YpZpXp == 16
ZpYpXn == 17
ZnYpXp == 18
YnZpXn == 19
YnZnXp == 20
ZnYnXn == 21
ZpYnXp == 22
YpZnXn == 23

N3 == 24
Rotation3i == 0..(N3 - 1)
IDENTITY3i == XpYpZp

\* The variant names and the serialized (serde rename) tags, letter by letter,
\* in discriminant order.
Rotation3iName ==
    <<<<"X", "p", "Y", "p", "Z", "p">>,
      <<"Y", "p", "X", "p", "Z", "n">>,
      <<"Y", "n", "X", "p", "Z", "p">>,
      <<"X", "n", "Y", "p", "Z", "n">>,
      <<"X", "n", "Y", "n", "Z", "p">>,
      <<"Y", "n", "X", "n", "Z", "n">>,
      <<"Y", "p", "X", "n", "Z", "p">>,
      <<"X", "p", "Y", "n", "Z", "n">>,
      <<"Z", "p", "X", "p", "Y", "p">>,
      <<"X", "p", "Z", "n", "Y", "p">>,
      <<"X", "n", "Z", "p", "Y", "p">>,
      <<"Z", "n", "X", "p", "Y", "n">>,
      <<"Z", "n", "X", "n", "Y", "p">>,
      <<"X", "n", "Z", "n", "Y", "n">>,
      <<"X", "p", "Z", "p", "Y", "n">>,
      <<"Z", "p", "X", "n", "Y", "n">>,
      <<"Y", "p", "Z", "p", "X", "p">>,
      <<"Z", "p", "Y", "p", "X", "n">>,
      <<"Z", "n", "Y", "p", "X", "p">>,
      <<"Y", "n", "Z", "p", "X", "n">>,
      <<"Y", "n", "Z", "n", "X", "p">>,
      <<"Z", "n", "Y", "n", "X", "n">>,
      <<"Z", "p", "Y", "n", "X", "p">>,
      <<"Y", "p", "Z", "n", "X", "n">>>>

Rotation3iTag ==
    <<<<"x", "p", "y", "p", "z", "p">>,
      <<"y", "p", "x", "p", "z", "n">>,
      <<"y", "n", "x", "p", "z", "p">>,
      <<"x", "n", "y", "p", "z", "n">>,
      <<"x", "n", "y", "n", "z", "p">>,
      <<"y", "n", "x", "n", "z", "n">>,
      <<"y", "p", "x", "n", "z", "p">>,
      <<"x", "p", "y", "n", "z", "n">>,
      <<"z", "p", "x", "p", "y", "p">>,
      <<"x", "p", "z", "n", "y", "p">>,
      <<"x", "n", "z", "p", "y", "p">>,
      <<"z", "n", "x", "p", "y", "n">>,
      <<"z", "n", "x", "n", "y", "p">>,
      <<"x", "n", "z", "n", "y", "n">>,
      <<"x", "p", "z", "n", "y", "n">>,
      <<"z", "p", "x", "n", "y", "n">>,
      <<"y", "p", "z", "p", "x", "p">>,
      <<"z", "p", "y", "p", "x", "n">>,
      <<"z", "n", "y", "p", "x", "p">>,
      <<"y", "n", "z", "p", "z", "n">>,
      <<"y", "n", "z", "n", "x", "p">>,
      <<"z", "n", "y", "n", "x", "n">>,
      <<"z", "p", "y", "n", "x", "p">>,
      <<"y", "p", "z", "n", "x", "n">>>>

\* apply_vec3i with the sign of one component of one variant lost.
apply_vec3i_typo(self, source) ==
    CASE self = XpYpZp -> source
      [] self = YpXpZn -> <<source[2], source[1], -source[3]>>
      [] self = YnXpZp -> <<source[2], source[1], source[3]>>
      [] self = XnYpZn -> <<-source[1], source[2], -source[3]>>
      [] self = XnYnZp -> <<-source[1], -source[2], source[3]>>
      [] self = YnXnZn -> <<-source[2], -source[1], -source[3]>>
      [] self = YpXnZp -> <<source[2], -source[1], source[3]>>
      [] self = XpYnZn -> <<source[1], -source[2], -source[3]>>
      [] self = ZpXpYp -> <<source[3], source[1], source[2]>>
      [] self = XpZnYp -> <<source[1], -source[3], source[2]>>
      [] self = XnZpYp -> <<-source[1], source[3], source[2]>>
      [] self = ZnXpYn -> <<-source[3], source[1], -source[2]>>
      [] self = ZnXnYp -> <<-source[3], -source[1], source[2]>>
      [] self = XnZnYn -> <<-source[1], -source[3], -source[2]>>
      [] self = XpZpYn -> <<source[1], source[3], -source[2]>>
      [] self = ZpXnYn -> <<source[3], -source[1], -source[2]>>
      [] self = YpZpXp -> <<source[2], source[3], source[1]>>
      [] self = ZpYpXn -> <<source[3], source[2], -source[1]>>
      [] self = ZnYpXp -> <<-source[3], source[2], source[1]>>
      [] self = YnZpXn -> <<-source[2], source[3], -source[1]>>
      [] self = YnZnXp -> <<-source[2], -source[3], source[1]>>
      [] self = ZnYnXn -> <<-source[3], -source[2], -source[1]>>
      [] self = ZpYnXp -> <<source[3], -source[2], source[1]>>
      [] self = YpZnXn -> <<source[2], -source[3], -source[1]>>

\* Applies a rotation to a Vector3i <<x, y, z>>.
apply_vec3i(self, source) ==
    CASE self = XpYpZp -> source
      [] self = YpXpZn -> <<source[2], source[1], -source[3]>>
      [] self = YnXpZp -> <<-source[2], source[1], source[3]>>
      [] self = XnYpZn -> <<-source[1], source[2], -source[3]>>
      [] self = XnYnZp -> <<-source[1], -source[2], source[3]>>
      [] self = YnXnZn -> <<-source[2], -source[1], -source[3]>>
      [] self = YpXnZp -> <<source[2], -source[1], source[3]>>
      [] self = XpYnZn -> <<source[1], -source[2], -source[3]>>
      [] self = ZpXpYp -> <<source[3], source[1], source[2]>>
      [] self = XpZnYp -> <<source[1], -source[3], source[2]>>
      [] self = XnZpYp -> <<-source[1], source[3], source[2]>>
      [] self = ZnXpYn -> <<-source[3], source[1], -source[2]>>
      [] self = ZnXnYp -> <<-source[3], -source[1], source[2]>>
      [] self = XnZnYn -> <<-source[1], -source[3], -source[2]>>
      [] self = XpZpYn -> <<source[1], source[3], -source[2]>>
      [] self = ZpXnYn -> <<source[3], -source[1], -source[2]>>
      [] self = YpZpXp -> <<source[2], source[3], source[1]>>
      [] self = ZpYpXn -> <<source[3], source[2], -source[1]>>
      [] self = ZnYpXp -> <<-source[3], source[2], source[1]>>
      [] self = YnZpXn -> <<-source[2], source[3], -source[1]>>
      [] self = YnZnXp -> <<-source[2], -source[3], source[1]>>
      [] self = ZnYnXn -> <<-source[3], -source[2], -source[1]>>
      [] self = ZpYnXp -> <<source[3], -source[2], source[1]>>
      [] self = YpZnXn -> <<source[2], -source[3], -source[1]>>

\* apply_vec3 with one variant reading the wrong component (the slip of the
\* "ynzpzn" tag).
apply_vec3_typo(self, source) ==
    CASE self = XpYpZp -> source
      [] self = YpXpZn -> <<source[2], source[1], FNeg(source[3])>>
      [] self = YnXpZp -> <<FNeg(source[2]), source[1], source[3]>>
      [] self = XnYpZn -> <<FNeg(source[1]), source[2], FNeg(source[3])>>
      [] self = XnYnZp -> <<FNeg(source[1]), FNeg(source[2]), source[3]>>
      [] self = YnXnZn -> <<FNeg(source[2]), FNeg(source[1]), FNeg(source[3])>>
      [] self = YpXnZp -> <<source[2], FNeg(source[1]), source[3]>>
      [] self = XpYnZn -> <<source[1], FNeg(source[2]), FNeg(source[3])>>
      [] self = ZpXpYp -> <<source[3], source[1], source[2]>>
      [] self = XpZnYp -> <<source[1], FNeg(source[3]), source[2]>>
      [] self = XnZpYp -> <<FNeg(source[1]), source[3], source[2]>>
      [] self = ZnXpYn -> <<FNeg(source[3]), source[1], FNeg(source[2])>>
      [] self = ZnXnYp -> <<FNeg(source[3]), FNeg(source[1]), source[2]>>
      [] self = XnZnYn -> <<FNeg(source[1]), FNeg(source[3]), FNeg(source[2])>>
      [] self = XpZpYn -> <<source[1], source[3], FNeg(source[2])>>
      [] self = ZpXnYn -> <<source[3], FNeg(source[1]), FNeg(source[2])>>
      [] self = YpZpXp -> <<source[2], source[3], source[1]>>
      [] self = ZpYpXn -> <<source[3], source[2], FNeg(source[1])>>
      [] self = ZnYpXp -> <<FNeg(source[3]), source[2], source[1]>>
      [] self = YnZpXn -> <<FNeg(source[2]), source[3], FNeg(source[3])>>
      [] self = YnZnXp -> <<FNeg(source[2]), FNeg(source[3]), source[1]>>
      [] self = ZnYnXn -> <<FNeg(source[3]), FNeg(source[2]), FNeg(source[1])>>
      [] self = ZpYnXp -> <<source[3], FNeg(source[2]), source[1]>>
      [] self = YpZnXn -> <<source[2], FNeg(source[3]), FNeg(source[1])>>

\* Applies a rotation to a Vector3 <<x, y, z>> of scalars.
apply_vec3(self, source) ==
    CASE self = XpYpZp -> source
      [] self = YpXpZn -> <<source[2], source[1], FNeg(source[3])>>
      [] self = YnXpZp -> <<FNeg(source[2]), source[1], source[3]>>
      [] self = XnYpZn -> <<FNeg(source[1]), source[2], FNeg(source[3])>>
      [] self = XnYnZp -> <<FNeg(source[1]), FNeg(source[2]), source[3]>>
      [] self = YnXnZn -> <<FNeg(source[2]), FNeg(source[1]), FNeg(source[3])>>
      [] self = YpXnZp -> <<source[2], FNeg(source[1]), source[3]>>
      [] self = XpYnZn -> <<source[1], FNeg(source[2]), FNeg(source[3])>>
      [] self = ZpXpYp -> <<source[3], source[1], source[2]>>
      [] self = XpZnYp -> <<source[1], FNeg(source[3]), source[2]>>
      [] self = XnZpYp -> <<FNeg(source[1]), source[3], source[2]>>
      [] self = ZnXpYn -> <<FNeg(source[3]), source[1], FNeg(source[2])>>
      [] self = ZnXnYp -> <<FNeg(source[3]), FNeg(source[1]), source[2]>>
      [] self = XnZnYn -> <<FNeg(source[1]), FNeg(source[3]), FNeg(source[2])>>
      [] self = XpZpYn -> <<source[1], source[3], FNeg(source[2])>>
      [] self = ZpXnYn -> <<source[3], FNeg(source[1]), FNeg(source[2])>>
      [] self = YpZpXp -> <<source[2], source[3], source[1]>>
      [] self = ZpYpXn -> <<source[3], source[2], FNeg(source[1])>>
      [] self = ZnYpXp -> <<FNeg(source[3]), source[2], source[1]>>
      [] self = YnZpXn -> <<FNeg(source[2]), source[3], FNeg(source[1])>>
      [] self = YnZnXp -> <<FNeg(source[2]), FNeg(source[3]), source[1]>>
      [] self = ZnYnXn -> <<FNeg(source[3]), FNeg(source[2]), FNeg(source[1])>>
      [] self = ZpYnXp -> <<source[3], FNeg(source[2]), source[1]>>
      [] self = YpZnXn -> <<source[2], FNeg(source[3]), FNeg(source[1])>>

\* vec3i_eq comparing the first component only.
vec3i_eq_x(a, b) == a[1] = b[1]

\* Determines whether two Vector3i are equal.
vec3i_eq(a, b) == a[1] = b[1] /\ a[2] = b[2] /\ a[3] = b[3]

\* A probe whose coordinates are all the same.
TEST_repeated == <<1, 1, 1>>

\* The probe vector of the table derivations.
TEST == <<1, 2, 3>>

(***************************************************************************)
(* Rotation3: quaternion, and its 3x3 matrix                               *)
(***************************************************************************)
new_unchecked(w, x, y, z) == [x_y_z |-> <<x, y, z>>, w |-> w]

\* SQRT_2 / 2 in f32 is 11863283 * 2^-24.
SQ == <<11863283, -24>>

\* Rotation3i::to_rot3: the quaternion of every variant.
to_rot3_TABLE ==
    <<new_unchecked(F_ONE, F_ZERO, F_ZERO, F_ZERO),
      new_unchecked(F_ZERO, SQ, SQ, F_ZERO),
      new_unchecked(SQ, F_ZERO, F_ZERO, SQ),
      new_unchecked(F_ZERO, F_ZERO, F_ONE, F_ZERO),
      new_unchecked(F_ZERO, F_ZERO, F_ZERO, F_ONE),
      new_unchecked(F_ZERO, SQ, FNeg(SQ), F_ZERO),
      new_unchecked(SQ, F_ZERO, F_ZERO, FNeg(SQ)),
      new_unchecked(F_ZERO, F_ONE, F_ZERO, F_ZERO),
      new_unchecked(F_HALF, F_HALF, F_HALF, F_HALF),
      new_unchecked(SQ, SQ, F_ZERO, F_ZERO),
      new_unchecked(F_ZERO, F_ZERO, SQ, SQ),
      new_unchecked(F_HALF, FNeg(F_HALF), FNeg(F_HALF), F_HALF),
      new_unchecked(F_HALF, F_HALF, FNeg(F_HALF), FNeg(F_HALF)),
      new_unchecked(F_ZERO, F_ZERO, FNeg(SQ), SQ),
      new_unchecked(SQ, FNeg(SQ), F_ZERO, F_ZERO),
      new_unchecked(F_HALF, FNeg(F_HALF), F_HALF, FNeg(F_HALF)),
      new_unchecked(F_HALF, FNeg(F_HALF), FNeg(F_HALF), FNeg(F_HALF)),
      new_unchecked(SQ, F_ZERO, SQ, F_ZERO),
      new_unchecked(SQ, F_ZERO, FNeg(SQ), F_ZERO),
      new_unchecked(F_HALF, FNeg(F_HALF), F_HALF, F_HALF),
      new_unchecked(F_HALF, F_HALF, FNeg(F_HALF), F_HALF),
      new_unchecked(F_ZERO, SQ, F_ZERO, FNeg(SQ)),
      new_unchecked(F_ZERO, SQ, F_ZERO, SQ),
      new_unchecked(F_HALF, F_HALF, F_HALF, FNeg(F_HALF))>>

\* to_rot3 with the conjugate quaternion (the rotation in the opposite sense).
to_rot3_conjugate(self) ==
    LET q == to_rot3_TABLE[self + 1]
    IN  new_unchecked(q.w, FNeg(q.x_y_z[1]), FNeg(q.x_y_z[2]), FNeg(q.x_y_z[3]))

to_rot3(self) == to_rot3_TABLE[self + 1]

\* From<Rotation3> for Matrix3; x, y, z are the columns.
Matrix3From(rot) ==
    LET w == rot.w
        x == rot.x_y_z[1]
        y == rot.x_y_z[2]
        z == rot.x_y_z[3]
        wx2 == FMul(FMul(F_TWO, w), x)
        wy2 == FMul(FMul(F_TWO, w), y)
        wz2 == FMul(FMul(F_TWO, w), z)
        xx2 == FMul(FMul(F_TWO, x), x)
        xy2 == FMul(FMul(F_TWO, x), y)
        xz2 == FMul(FMul(F_TWO, x), z)
        yy2 == FMul(FMul(F_TWO, y), y)
        yz2 == FMul(FMul(F_TWO, y), z)
        zz2 == FMul(FMul(F_TWO, z), z)
    IN  [x |-> <<FSub(FSub(F_ONE, yy2), zz2), FAdd(xy2, wz2), FSub(xz2, wy2)>>,
         y |-> <<FSub(xy2, wz2), FSub(FSub(F_ONE, xx2), zz2), FAdd(yz2, wx2)>>,
         z |-> <<FAdd(xz2, wy2), FSub(yz2, wx2), FSub(FSub(F_ONE, xx2), yy2)>>]

\* Matrix3 * Vector3: the combination of the columns.
Matrix3MulVec(m, v) ==
    LET row(n) == FAdd(FAdd(FMul(m.x[n], v[1]), FMul(m.y[n], v[2])), FMul(m.z[n], v[3]))
    IN  <<row(1), row(2), row(3)>>

\* Mul<Vector3> for Rotation3.
Rotation3MulVec(rot, v) == Matrix3MulVec(Matrix3From(rot), v)

(***************************************************************************)
(* Rotation2i and Rotation2                                                *)
(***************************************************************************)
XpYp == 0
YpXn == 1
XnYn == 2
YnXp == 3

N2 == 4
Rotation2i == 0..(N2 - 1)
IDENTITY2i == XpYp

Rotation2iName ==
    <<<<"X", "p", "Y", "p">>,
      <<"Y", "p", "X", "n">>,
      <<"X", "n", "Y", "n">>,
      <<"Y", "n", "X", "p">>>>

Rotation2iTag ==
    <<<<"x", "p", "y", "p">>,
      <<"y", "p", "x", "n">>,
      <<"x", "n", "y", "n">>,
      <<"y", "n", "x", "p">>>>

\* u8 arithmetic and the two-bit mask of the transmutes.
U8(n) == n % 256
Mask2(n) == n % 4

\* inverse with the subtraction from 3 instead of 4.
inverse2i_from3(self) == Mask2(U8(3 - self))

\* Rotation2i::inverse.
inverse2i(self) == Mask2(U8(4 - self))

\* Composition by index subtraction.
mul2i_sub(self, rhs) == Mask2(U8(self - rhs))

\* Mul<Rotation2i> for Rotation2i.
mul2i(self, rhs) == Mask2(U8(self + rhs))

\* Rotation2i::apply_vec2i.
apply_vec2i(self, source) ==
    CASE self = XpYp -> <<source[1], source[2]>>
      [] self = YpXn -> <<-source[2], source[1]>>
      [] self = XnYn -> <<-source[1], -source[2]>>
      [] self = YnXp -> <<source[2], -source[1]>>

\* Rotation2i::apply_vec2.
apply_vec2(self, source) ==
    CASE self = XpYp -> <<source[1], source[2]>>
      [] self = YpXn -> <<FNeg(source[2]), source[1]>>
      [] self = XnYn -> <<FNeg(source[1]), FNeg(source[2])>>
      [] self = YnXp -> <<source[2], FNeg(source[1])>>

\* The named Rotation2 constants, as tan_half_angle values.
R2_IDENTITY == [tan_half_angle |-> F_ZERO]
R2_CCW_90 == [tan_half_angle |-> F_ONE]
R2_CW_90 == [tan_half_angle |-> FNeg(F_ONE)]
R2_FLIP == [tan_half_angle |-> F_INF]

\* to_rot2 with the two quarter turns exchanged.
to_rot2_swapped(self) == <<R2_IDENTITY, R2_CW_90, R2_FLIP, R2_CCW_90>>[self + 1]

\* Rotation2i::to_rot2.
to_rot2(self) == <<R2_IDENTITY, R2_CCW_90, R2_FLIP, R2_CW_90>>[self + 1]

\* Rotation2::angle_sin_cos, as <<sin, cos>>.
angle_sin_cos(self) ==
    LET x == self.tan_half_angle
    IN  IF FLt(FAbs(x), NORMAL_THRESHOLD)
          THEN LET x_sqr == FMul(x, x)
                   y == FDiv(F_ONE, FAdd(F_ONE, x_sqr))
               IN  <<FMul(FMul(F_TWO, x), y), FMul(FSub(F_ONE, x_sqr), y)>>
          ELSE <<FDiv(F_TWO, x), FNeg(F_ONE)>>

\* Mul<Vector2> with the sine negated (the rotation in the opposite sense).
Rotation2MulVec_opposite(self, rhs) ==
    LET sc == angle_sin_cos(self)
        sin == sc[1]
        cos == sc[2]
    IN  <<FAdd(FMul(cos, rhs[1]), FMul(sin, rhs[2])),
          FSub(FMul(cos, rhs[2]), FMul(sin, rhs[1]))>>

\* Mul<Vector2> for Rotation2.
Rotation2MulVec(self, rhs) ==
    LET sc == angle_sin_cos(self)
        sin == sc[1]
        cos == sc[2]
    IN  <<FSub(FMul(cos, rhs[1]), FMul(sin, rhs[2])),
          FAdd(FMul(sin, rhs[1]), FMul(cos, rhs[2]))>>

\* The f32 values next to a finite non-zero x, and x itself: the results a
\* libm function may return where x is the correctly rounded one.
Neighbours(x) ==
    LET step(d) ==
            LET m == x[1] + d
            IN  IF IAbs(m) = 2^F_MANT THEN <<m \div 2, x[2] + 1>>
                ELSE IF IAbs(m) < 2^(F_MANT - 1) /\ x[2] > F_EMIN
                  THEN <<2 * m + ISign(m), x[2] - 1>>
                ELSE <<m, x[2]>>
    IN  {step(-1), x, step(1)}

\* tan in f32 at the half angles of test_compose and of
\* test_matrix_roundtrip: <<x, tan(x)>>.
TAN_TABLE ==
    {<<F_HALF, <<9165435, -24>>>>,
     <<<<10066330, -24>>, <<11477912, -24>>>>,
     <<<<15693649, -23>>, <<-13557488, -22>>>>}

\* cos and sin in f32 at the angles test_compose accumulates: <<angle, cos, sin>>.
TRIG_TABLE ==
    {<<<<9227469, -22>>, <<-9873411, -24>>, <<13564318, -24>>>>,
      <<<<14260634, -22>>, <<-16220182, -24>>, <<-8574540, -25>>>>,
      <<<<9646900, -21>>, <<-15052806, -27>>, <<-16671369, -24>>>>,
      <<<<12163482, -21>>, <<14856554, -24>>, <<-15589457, -25>>>>,
      <<<<14680064, -21>>, <<12648381, -24>>, <<11022406, -24>>>>,
      <<<<8598323, -20>>, <<-11380143, -25>>, <<15782841, -24>>>>,
      <<<<9856614, -20>>, <<-16772066, -24>>, <<13301410, -29>>>>,
      <<<<11114905, -20>>, <<-12929822, -25>>, <<-15481599, -24>>>>,
      <<<<12373196, -20>>, <<12086842, -24>>, <<-11635429, -24>>>>,
      <<<<13631487, -20>>, <<15224437, -24>>, <<14098437, -25>>>>,
      <<<<14889778, -20>>, <<-8427609, -27>>, <<16744110, -24>>>>,
      <<<<16148069, -20>>, <<-15987890, -24>>, <<10171007, -25>>>>,
      <<<<8703180, -19>>, <<-10533226, -24>>, <<-13058565, -24>>>>,
      <<<<9332326, -19>>, <<16708615, -25>>, <<-14549245, -24>>>>,
      <<<<9961472, -19>>, <<16587711, -24>>, <<10058089, -26>>>>,
      <<<<10590618, -19>>, <<14668160, -26>>, <<16371554, -24>>>>,
      <<<<11219764, -19>>, <<-13930155, -24>>, <<9350174, -24>>>>,
      <<<<11848910, -19>>, <<-13762420, -24>>, <<-9595352, -24>>>>,
      <<<<12478056, -19>>, <<15825343, -26>>, <<-16304060, -24>>>>,
      <<<<13107202, -19>>, <<16629632, -24>>, <<-8881722, -26>>>>,
      <<<<13736348, -19>>, <<16190786, -25>>, <<14694883, -24>>>>,
      <<<<14365494, -19>>, <<-10762787, -24>>, <<12870019, -24>>>>,
      <<<<14994640, -19>>, <<-15895336, -24>>, <<-10735598, -25>>>>,
      <<<<15623786, -19>>, <<-12108595, -28>>, <<-16760139, -24>>>>,
      <<<<16252932, -19>>, <<15346882, -24>>, <<-13557020, -25>>>>,
      <<<<8441039, -18>>, <<11878889, -24>>, <<11847657, -24>>>>,
      <<<<8755612, -18>>, <<-13476168, -25>>, <<15364674, -24>>>>,
      <<<<9070185, -18>>, <<-16762073, -24>>, <<-11402586, -28>>>>,
      <<<<9384758, -18>>, <<-10819253, -25>>, <<-15881150, -24>>>>,
      <<<<9699331, -18>>, <<12841640, -24>>, <<-10796631, -24>>>>,
      <<<<10013904, -18>>, <<14716144, -24>>, <<16113358, -25>>>>,
      <<<<10328477, -18>>, <<-8706574, -26>>, <<16635420, -24>>>>,
      <<<<10643050, -18>>, <<-16293588, -24>>, <<15996977, -26>>>>,
      <<<<10957623, -18>>, <<-9631550, -24>>, <<-13737111, -24>>>>,
      <<<<11272196, -18>>, <<9313469, -24>>, <<-13954722, -24>>>>,
      <<<<11586769, -18>>, <<16381152, -24>>, <<14495710, -26>>>>,
      <<<<11901342, -18>>, <<10232730, -26>>, <<16581034, -24>>>>,
      <<<<12215915, -18>>, <<-14527201, -24>>, <<8392581, -24>>>>,
      <<<<12530488, -18>>, <<-13086250, -24>>, <<-10498812, -24>>>>,
      <<<<12845061, -18>>, <<10086822, -25>>, <<-16001218, -24>>>>,
      <<<<13159634, -18>>, <<16741281, -24>>, <<-8779970, -27>>>>,
      <<<<13474207, -18>>, <<14178461, -25>>, <<15205847, -24>>>>,
      <<<<13788780, -18>>, <<-11603615, -24>>, <<12117388, -24>>>>,
      <<<<14103353, -18>>, <<-15498534, -24>>, <<-12848411, -25>>>>,
      <<<<14417926, -18>>, <<11891497, -29>>, <<-16773100, -24>>>>,
      <<<<14732499, -18>>, <<15767845, -24>>, <<-11462993, -25>>>>,
      <<<<15047072, -18>>, <<11055570, -24>>, <<12619404, -24>>>>,
      <<<<15361645, -18>>, <<-15511435, -25>>, <<14876956, -24>>>>,
      <<<<15676218, -18>>, <<-16676248, -24>>, <<-14702913, -27>>>>,
      <<<<15990791, -18>>, <<-8659588, -25>>, <<-16208882, -24>>>>,
      <<<<16305364, -18>>, <<13538385, -24>>, <<-9908941, -24>>>>,
      <<<<16619937, -18>>, <<14141252, -24>>, <<9027733, -24>>>>,
      <<<<8467255, -17>>, <<-13160080, -26>>, <<16451466, -24>>>>,
      <<<<8624541, -17>>, <<-16525565, -24>>, <<11579758, -26>>>>,
      <<<<8781827, -17>>, <<-8686407, -24>>, <<-14353442, -24>>>>,
      <<<<8939113, -17>>, <<10230342, -24>>, <<-13297183, -24>>>>,
      <<<<9096399, -17>>, <<16100553, -24>>, <<9433383, -25>>>>,
      <<<<9253685, -17>>, <<11504562, -27>>, <<16715470, -24>>>>,
      <<<<9410971, -17>>, <<-15058353, -24>>, <<14794727, -25>>>>,
      <<<<9568257, -17>>, <<-12351178, -24>>, <<-11354444, -24>>>>,
      <<<<9725543, -17>>, <<12214385, -25>>, <<-15626170, -24>>>>,
      <<<<9882829, -17>>, <<16777189, -24>>, <<15271519, -33>>>>,
      <<<<10040115, -17>>, <<12103185, -25>>, <<15647786, -24>>>>,
      <<<<10197401, -17>>, <<-12391472, -24>>, <<11310455, -24>>>>,
      <<<<10354687, -17>>, <<-15031955, -24>>, <<-14901719, -25>>>>,
      <<<<10511973, -17>>, <<11979967, -27>>, <<-16710251, -24>>>>,
      <<<<10669259, -17>>, <<16117222, -24>>, <<-9318827, -25>>>>,
      <<<<10826545, -17>>, <<10182997, -24>>, <<13333475, -24>>>>,
      <<<<10983831, -17>>, <<-8737388, -24>>, <<14322466, -24>>>>,
      <<<<11141117, -17>>, <<-16515167, -24>>, <<-11814723, -26>>>>,
      <<<<11298403, -17>>, <<-12926013, -26>>, <<-16463061, -24>>>>,
      <<<<11455689, -17>>, <<14173228, -24>>, <<-8977448, -24>>>>,
      <<<<11612975, -17>>, <<13503142, -24>>, <<9956914, -24>>>>,
      <<<<11770261, -17>>, <<-8774430, -25>>, <<16193435, -24>>>>,
      <<<<11927547, -17>>, <<-16682650, -24>>, <<14230494, -27>>>>,
      <<<<12084833, -17>>, <<-15406110, -25>>, <<-14904292, -24>>>>,
      <<<<12242119, -17>>, <<11100083, -24>>, <<-12580268, -24>>>>,
      <<<<12399405, -17>>, <<15747520, -24>>, <<11574210, -25>>>>,
      <<<<12556691, -17>>, <<9999334, -29>>, <<16774306, -24>>>>,
      <<<<12713977, -17>>, <<-15521060, -24>>, <<12739180, -25>>>>,
      <<<<12871263, -17>>, <<-11560920, -24>>, <<-12158129, -24>>>>,
      <<<<13028549, -17>>, <<14285232, -25>>, <<-15180844, -24>>>>,
      <<<<13185835, -17>>, <<16737325, -24>>, <<9249997, -27>>>>,
      <<<<13343121, -17>>, <<9974557, -25>>, <<16018802, -24>>>>,
      <<<<13500407, -17>>, <<-13122939, -24>>, <<10452916, -24>>>>,
      <<<<13657693, -17>>, <<-14497751, -24>>, <<-8443353, -24>>>>,
      <<<<13814979, -17>>, <<10464447, -26>>, <<-16571993, -24>>>>,
      <<<<13972265, -17>>, <<16393702, -24>>, <<-14266887, -26>>>>,
      <<<<14129551, -17>>, <<9264752, -24>>, <<13987114, -24>>>>,
      <<<<14286837, -17>>, <<-9679340, -24>>, <<13703479, -24>>>>,
      <<<<14444123, -17>>, <<-16279575, -24>>, <<-16223647, -26>>>>,
      <<<<14601409, -17>>, <<-8475251, -26>>, <<-16642885, -24>>>>,
      <<<<14758695, -17>>, <<14744026, -24>>, <<-16011079, -25>>>>,
      <<<<14915981, -17>>, <<12804121, -24>>, <<10841100, -24>>>>,
      <<<<15073267, -17>>, <<-10929216, -25>>, <<15862315, -24>>>>,
      <<<<15230553, -17>>, <<-16764439, -24>>, <<10474488, -28>>>>,
      <<<<15387839, -17>>, <<-13369872, -25>>, <<-15387872, -24>>>>,
      <<<<15545125, -17>>, <<11919724, -24>>, <<-11806573, -24>>>>,
      <<<<15702411, -17>>, <<15323412, -24>>, <<13662797, -25>>>>,
      <<<<15859697, -17>>, <<-13032354, -28>>, <<16757432, -24>>>>}

Tan(x) == (CHOOSE e \in TAN_TABLE : e[1] = x)[2]
Cos(x) == (CHOOSE e \in TRIG_TABLE : e[1] = x)[2]
Sin(x) == (CHOOSE e \in TRIG_TABLE : e[1] = x)[3]

\* Rotation2::from_angle.
from_angle(angle) == [tan_half_angle |-> Tan(FDiv(angle, F_TWO))]

\* The branch of Mul<Rotation2> with the threshold itself counted as singular.
mul_branch_strict(x, y) ==
    IF FLt(FAbs(x), NORMAL_THRESHOLD)
      THEN IF FLt(FAbs(y), NORMAL_THRESHOLD) THEN "general" ELSE "rhs_singular"
      ELSE IF FLt(FAbs(y), NORMAL_THRESHOLD) THEN "lhs_singular" ELSE "both_singular"

\* Mul<Rotation2> for Rotation2: the branch taken for tan_half_angle x and y.
mul_branch(x, y) ==
    IF FLe(FAbs(x), NORMAL_THRESHOLD)
      THEN IF FLe(FAbs(y), NORMAL_THRESHOLD) THEN "general" ELSE "rhs_singular"
      ELSE IF FLe(FAbs(y), NORMAL_THRESHOLD) THEN "lhs_singular" ELSE "both_singular"

\* The tan_half_angle of each branch with the sign of the general
\* denominator changed.
mul_formula_plus(branch, x, y) ==
    CASE branch = "general" -> FDiv(FAdd(x, y), FAdd(F_ONE, FMul(x, y)))
      [] branch = "rhs_singular" -> FDiv(F_ONE, FSub(FDiv(F_ONE, y), x))
      [] branch = "lhs_singular" -> FDiv(F_ONE, FSub(FDiv(F_ONE, x), y))
      [] branch = "both_singular" ->
            FAdd(FDiv(FNeg(F_ONE), x), FDiv(FNeg(F_ONE), y))

\* The tan_half_angle each branch computes.
mul_formula(branch, x, y) ==
    CASE branch = "general" -> FDiv(FAdd(x, y), FSub(F_ONE, FMul(x, y)))
      [] branch = "rhs_singular" -> FDiv(F_ONE, FSub(FDiv(F_ONE, y), x))
      [] branch = "lhs_singular" -> FDiv(F_ONE, FSub(FDiv(F_ONE, x), y))
      [] branch = "both_singular" ->
            FAdd(FDiv(FNeg(F_ONE), x), FDiv(FNeg(F_ONE), y))

\* Mul<Rotation2> for Rotation2.
Rotation2Mul(self, rhs) ==
    LET x == self.tan_half_angle
        y == rhs.tan_half_angle
    IN  [tan_half_angle |-> mul_formula(mul_branch(x, y), x, y)]

\* Vector3::norm and Vector3 / Scalar (diffvec): the division is either
\* componentwise or a multiplication by the reciprocal.
Vector3Norm(v) ==
    FSqrt(FAdd(FAdd(FMul(v[1], v[1]), FMul(v[2], v[2])), FMul(v[3], v[3])))

Vector3Div(v, s, recip) ==
    IF recip
      THEN LET r == FDiv(F_ONE, s)
           IN  <<FMul(v[1], r), FMul(v[2], r), FMul(v[3], r)>>
      ELSE <<FDiv(v[1], s), FDiv(v[2], s), FDiv(v[3], s)>>

\* Rotation3::about: the half-angle sine and cosine, from the sine and cosine
\* of the angle; h is the square root the branch takes first.
half_angle_rest(sin, cos, positive, h) ==
    LET rest == FDiv(FMul(sin, h),
                     IF positive THEN FAdd(F_ONE, cos) ELSE FSub(F_ONE, cos))
    IN  IF positive THEN <<rest, h>> ELSE <<h, rest>>

half_angle(sc) ==
    IF FGt(sc[2], F_ZERO)
      THEN half_angle_rest(sc[1], sc[2], TRUE,
                           FSqrt(FDiv(FAdd(F_ONE, sc[2]), F_TWO)))
      ELSE half_angle_rest(sc[1], sc[2], FALSE,
                           FSqrt(FDiv(FSub(F_ONE, sc[2]), F_TWO)))

\* Rotation3::about: the quaternion from the axis and <<h_sin, h_cos>>.
about_half(axis, h) ==
    [x_y_z |-> <<FMul(axis[1], h[1]), FMul(axis[2], h[1]), FMul(axis[3], h[1])>>,
     w |-> h[2]]

\* Rotation3::about.
about(axis, amount) == about_half(axis, half_angle(angle_sin_cos(amount)))

\* Rotation3::from_euler; amount is Rotation2::from_angle(len) as tan
\* returned it, recip the way Vector3 / Scalar divides.
from_euler(vec, recip, amount) ==
    LET len == Vector3Norm(vec)
    IN  about(Vector3Div(vec, len, recip), amount)

\* Rotation3::from_matrix with the y and z branches exchanged.
from_matrix_branch_yz(matrix) ==
    LET trace == FAdd(FAdd(matrix.x[1], matrix.y[2]), matrix.z[3])
    IN  IF FGt(trace, F_ZERO) THEN "trace"
        ELSE IF FGe(matrix.x[1], matrix.y[2]) /\ FGe(matrix.x[1], matrix.z[3]) THEN "x"
        ELSE IF FGt(matrix.y[2], matrix.z[3]) THEN "z"
        ELSE "y"

\* Rotation3::from_matrix: the branch taken.
from_matrix_branch(matrix) ==
    LET trace == FAdd(FAdd(matrix.x[1], matrix.y[2]), matrix.z[3])
    IN  IF FGt(trace, F_ZERO) THEN "trace"
        ELSE IF FGe(matrix.x[1], matrix.y[2]) /\ FGe(matrix.x[1], matrix.z[3]) THEN "x"
        ELSE IF FGt(matrix.y[2], matrix.z[3]) THEN "y"
        ELSE "z"

\* Rotation3::from_matrix: s of each branch.
from_matrix_s(branch, m) ==
    CASE branch = "trace" ->
           FSqrt(FAdd(FAdd(FAdd(m.x[1], m.y[2]), m.z[3]), F_ONE))
      [] branch = "x" -> FSqrt(FSub(FSub(FAdd(F_ONE, m.x[1]), m.y[2]), m.z[3]))
      [] branch = "y" -> FSqrt(FSub(FSub(FAdd(F_ONE, m.y[2]), m.z[3]), m.x[1]))
      [] branch = "z" -> FSqrt(FSub(FSub(FAdd(F_ONE, m.z[3]), m.x[1]), m.y[2]))

\* Rotation3::from_matrix: the quaternion of each branch, from its s.
from_matrix_quaternion(branch, m, s) ==
    LET inv_s == FDiv(F_HALF, s)
    IN
    CASE branch = "trace" ->
           new_unchecked(FMul(F_HALF, s),
                         FMul(FSub(m.y[3], m.z[2]), inv_s),
                         FMul(FSub(m.z[1], m.x[3]), inv_s),
                         FMul(FSub(m.x[2], m.y[1]), inv_s))
      [] branch = "x" ->
           new_unchecked(FMul(FSub(m.y[3], m.z[2]), inv_s),
                         FMul(F_HALF, s),
                         FMul(FAdd(m.x[2], m.y[1]), inv_s),
                         FMul(FAdd(m.z[1], m.x[3]), inv_s))
      [] branch = "y" ->
           new_unchecked(FMul(FSub(m.z[1], m.x[3]), inv_s),
                         FMul(FAdd(m.x[2], m.y[1]), inv_s),
                         FMul(F_HALF, s),
                         FMul(FAdd(m.y[3], m.z[2]), inv_s))
      [] branch = "z" ->
           new_unchecked(FMul(FSub(m.x[2], m.y[1]), inv_s),
                         FMul(FAdd(m.z[1], m.x[3]), inv_s),
                         FMul(FAdd(m.y[3], m.z[2]), inv_s),
                         FMul(F_HALF, s))

\* Rotation3::from_matrix: the quaternion each branch computes.
from_matrix_formula(branch, matrix) ==
    from_matrix_quaternion(branch, matrix, from_matrix_s(branch, matrix))

\* from_matrix by the trace formula alone.
from_matrix_trace(matrix) == from_matrix_formula("trace", matrix)

\* Rotation3::from_matrix.
from_matrix(matrix) == from_matrix_formula(from_matrix_branch(matrix), matrix)

\* AbsDiffEq for Rotation3.
Rotation3AbsDiffEq(a, b, epsilon) ==
    /\ VecAbsDiffEq(a.x_y_z, b.x_y_z, epsilon)
    /\ ScalarAbsDiffEq(a.w, b.w, epsilon)

(***************************************************************************)
(* Box2i and Size2i (shape/box2i.rs)                                       *)
(*                                                                         *)
(* i32 and u32 are modelled with IntBits bits: i32 is I_MIN..I_MAX in      *)
(* two's complement and u32 is 0..U_MAX.  A Vector2i is <<x, y>>.  An      *)
(* operation that can panic yields [ok |-> FALSE] when it does.            *)
(***************************************************************************)
I_MIN == -(2^(IntBits - 1))
I_MAX == 2^(IntBits - 1) - 1
U_MAX == 2^IntBits - 1
I32 == I_MIN..I_MAX
U32 == 0..U_MAX
Point2i == I32 \X I32

PANIC == [ok |-> FALSE]

\* `n as u32` for an i32 n.
AsU32(n) == n % 2^IntBits

\* a - b on u32: with overflow checks (the default of a debug build) an
\* underflow panics, without them (a release build) the result wraps.
U32Sub(a, b, overflow_checks) ==
    IF a < b /\ overflow_checks THEN PANIC
    ELSE [ok |-> TRUE, value |-> (a - b) % 2^IntBits]

\* i32::saturating_add_unsigned.
saturating_add_unsigned(n, rhs) == IF n + rhs > I_MAX THEN I_MAX ELSE n + rhs

\* i32::wrapping_add_unsigned.
wrapping_add_unsigned(n, rhs) ==
    LET u == (n + rhs) % 2^IntBits
    IN  IF u > I_MAX THEN u - 2^IntBits ELSE u

Box2i(min, max) == [min |-> min, max |-> max]
Size2i(x_minus_1, y_minus_1) == [x_minus_1 |-> x_minus_1, y_minus_1 |-> y_minus_1]

\* #[derive(Default)] for Box2i: both corners at the origin.
Box2iDefault == Box2i(<<0, 0>>, <<0, 0>>)

\* Box2i::ALL.
ALL == Box2i(<<I_MIN, I_MIN>>, <<I_MAX, I_MAX>>)

\* Box2i::only.
only(point) == Box2i(point, point)

\* Box2i::from_min_max without the assertion on y.
from_min_max_x_only(min, max) ==
    IF ~(min[1] <= max[1]) THEN PANIC
    ELSE [ok |-> TRUE, box |-> Box2i(min, max)]

\* Box2i::from_min_max.
from_min_max(min, max) ==
    IF ~(min[1] <= max[1]) THEN PANIC
    ELSE IF ~(min[2] <= max[2]) THEN PANIC
    ELSE [ok |-> TRUE, box |-> Box2i(min, max)]

\* Box2i::from_min_size with a wrapping addition.
from_min_size_wrapping(min, size) ==
    Box2i(min, <<wrapping_add_unsigned(min[1], size.x_minus_1),
                 wrapping_add_unsigned(min[2], size.y_minus_1)>>)

\* Box2i::from_min_size.
from_min_size(min, size) ==
    Box2i(min, <<saturating_add_unsigned(min[1], size.x_minus_1),
                 saturating_add_unsigned(min[2], size.y_minus_1)>>)

\* Box2i::min and Box2i::max.
box_min(self) == self.min
box_max(self) == self.max

\* Box2i::size.
size(self, overflow_checks) ==
    LET x == U32Sub(AsU32(self.max[1]), AsU32(self.min[1]), overflow_checks)
        y == U32Sub(AsU32(self.max[2]), AsU32(self.min[2]), overflow_checks)
    IN  IF ~x.ok \/ ~y.ok THEN PANIC
        ELSE [ok |-> TRUE, size |-> Size2i(x.value, y.value)]

\* Box2i::contains.
contains(self, point) ==
    /\ self.min[1] <= point[1]
    /\ self.min[2] <= point[2]
    /\ point[1] <= self.max[1]
    /\ point[2] <= self.max[2]

\* Box2i::overlaps with strict comparisons.
overlaps_strict(self, other) ==
    /\ self.min[1] < other.max[1]
    /\ self.min[2] < other.max[2]
    /\ other.min[1] < self.max[1]
    /\ other.min[2] < self.max[2]

\* Box2i::overlaps.
overlaps(self, other) ==
    /\ self.min[1] <= other.max[1]
    /\ self.min[2] <= other.max[2]
    /\ other.min[1] <= self.max[1]
    /\ other.min[2] <= self.max[2]

\* u32::checked_add with the check left out: the sum wraps.
checked_add_wrapping(n, rhs) == [ok |-> TRUE, value |-> (n + rhs) % 2^IntBits]

\* u32::checked_add followed by expect: a sum beyond u32::MAX panics.
checked_add(n, rhs) ==
    IF n + rhs > U_MAX THEN PANIC ELSE [ok |-> TRUE, value |-> n + rhs]

\* Size2i::new, for non-zero x and y.
Size2iNew(x, y) == Size2i(x - 1, y - 1)

\* Size2i::x, Size2i::y, Size2i::x_minus_1 and Size2i::y_minus_1.
Size2i_x(self) == checked_add(self.x_minus_1, 1)
Size2i_y(self) == checked_add(self.y_minus_1, 1)
Size2i_x_minus_1(self) == [ok |-> TRUE, value |-> self.x_minus_1]
Size2i_y_minus_1(self) == [ok |-> TRUE, value |-> self.y_minus_1]

\* size2i: NonZeroU32::new(..).expect(..) on both components.
size2i(x, y) ==
    IF x = 0 \/ y = 0 THEN PANIC ELSE [ok |-> TRUE, size |-> Size2iNew(x, y)]

(***************************************************************************)
(* Motion2i and Ortho2i (trans2i.rs)                                       *)
(*                                                                         *)
(* i32 has IntBits bits as above; i8 is narrower and has IntBits - 1 bits. *)
(* Arithmetic that leaves its range panics in a build with overflow checks *)
(* and wraps in a build without them.  An operation that can panic yields  *)
(* [ok |-> TRUE, value |-> v] or PANIC.                                    *)
(***************************************************************************)
I8_MIN == -(2^(IntBits - 2))
I8_MAX == 2^(IntBits - 2) - 1
I8 == I8_MIN..I8_MAX

OK(v) == [ok |-> TRUE, value |-> v]

\* n reduced to two's complement of the given width.
Wrap(n, bits) ==
    IF n % 2^bits >= 2^(bits - 1) THEN (n % 2^bits) - 2^bits ELSE n % 2^bits

\* An i32 result whose exact value is n.
I32Op(n, overflow_checks) ==
    IF n \in I32 THEN OK(n)
    ELSE IF overflow_checks THEN PANIC
    ELSE OK(Wrap(n, IntBits))

\* An i8 result whose exact value is n.
I8Op(n, overflow_checks) ==
    IF n \in I8 THEN OK(n)
    ELSE IF overflow_checks THEN PANIC
    ELSE OK(Wrap(n, IntBits - 1))

\* A Vector2i from the results of its components.
Vec2iOf(x, y) == IF x.ok /\ y.ok THEN OK(<<x.value, y.value>>) ELSE PANIC

\* A Vector2i result whose exact components are v.
Vec2iOp(v, overflow_checks) ==
    Vec2iOf(I32Op(v[1], overflow_checks), I32Op(v[2], overflow_checks))

\* r, and when r did not panic, the operation F on its value.
AndThen(r, F(_)) == IF r.ok THEN F(r.value) ELSE PANIC

\* Add and Neg for Vector2i (derive_more).
Vector2iAdd(a, b, overflow_checks) ==
    Vec2iOp(<<a[1] + b[1], a[2] + b[2]>>, overflow_checks)
Vector2iNeg(a, overflow_checks) == Vec2iOp(<<-a[1], -a[2]>>, overflow_checks)

\* Mul<Vector2i> for Rotation2i: apply_vec2i on i32 components.
Rotation2iMulVec(self, rhs, overflow_checks) ==
    Vec2iOp(apply_vec2i(self, rhs), overflow_checks)

Motion2i(rotation, offset) == [rotation |-> rotation, offset |-> offset]

\* Motion2i::identity.
Motion2iIdentity == Motion2i(IDENTITY2i, <<0, 0>>)

\* Mul<Vector2i> for Motion2i.
Motion2iMulVec(self, rhs, overflow_checks) ==
    AndThen(Rotation2iMulVec(self.rotation, rhs, overflow_checks),
            LAMBDA v : Vector2iAdd(v, self.offset, overflow_checks))

\* A Motion2i of the given rotation from the result of its offset.
Motion2iOf(rotation, offset) ==
    IF offset.ok THEN OK(Motion2i(rotation, offset.value)) ELSE PANIC

\* Motion2i::inverse with the negated offset left as it is.
Motion2iInverse_no_rotate(self, overflow_checks) ==
    Motion2iOf(inverse2i(self.rotation), Vector2iNeg(self.offset, overflow_checks))

\* Motion2i::inverse.
Motion2iInverse(self, overflow_checks) ==
    Motion2iOf(inverse2i(self.rotation),
               AndThen(Vector2iNeg(self.offset, overflow_checks),
                       LAMBDA v : Rotation2iMulVec(inverse2i(self.rotation), v,
                                                   overflow_checks)))

\* Mul<Motion2i> for Motion2i.
Motion2iMul(self, rhs, overflow_checks) ==
    Motion2iOf(mul2i(self.rotation, rhs.rotation),
               Motion2iMulVec(self, rhs.offset, overflow_checks))

Ortho2i(scaling_x, scaling_y, swap_axes, offset) ==
    [scaling_x |-> scaling_x, scaling_y |-> scaling_y,
     swap_axes |-> swap_axes, offset |-> offset]

\* NonZeroI32::try_from / NonZeroI8::try_from followed by unwrap.
NonZero(r) == IF r.ok /\ r.value # 0 THEN r ELSE PANIC

\* i8::try_from(i32) (through NonZeroI8::try_from(NonZeroI32)) and unwrap.
I8TryFrom(r) == IF r.ok /\ r.value \in I8 THEN r ELSE PANIC

\* An Ortho2i from the results of its scalings and of its offset.
Ortho2iOf(scaling_x, scaling_y, swap_axes, offset) ==
    IF scaling_x.ok /\ scaling_y.ok /\ offset.ok
      THEN OK(Ortho2i(scaling_x.value, scaling_y.value, swap_axes, offset.value))
      ELSE PANIC

\* Ortho2i::scale.
scale(x, y) ==
    Ortho2iOf(I8TryFrom(NonZero(OK(x))), I8TryFrom(NonZero(OK(y))), FALSE,
              OK(<<0, 0>>))

\* From<Motion2i> for Ortho2i: the table indexed by the rotation.
Ortho2iFromTable ==
    <<<<1, 1, FALSE>>, <<1, -1, TRUE>>, <<-1, -1, FALSE>>, <<-1, 1, TRUE>>>>

\* From<Motion2i> for Ortho2i.
Ortho2iFrom(value) ==
    Ortho2i(Ortho2iFromTable[value.rotation + 1][1],
            Ortho2iFromTable[value.rotation + 1][2],
            Ortho2iFromTable[value.rotation + 1][3],
            value.offset)

\* Mul<Vector2i> for Ortho2i with the axes swapped before the scaling.
Ortho2iMulVec_swap_first(self, rhs, overflow_checks) ==
    AndThen(Vec2iOp(IF self.swap_axes
                      THEN <<rhs[2] * self.scaling_x, rhs[1] * self.scaling_y>>
                      ELSE <<rhs[1] * self.scaling_x, rhs[2] * self.scaling_y>>,
                    overflow_checks),
            LAMBDA v : Vector2iAdd(v, self.offset, overflow_checks))

\* Mul<Vector2i> for Ortho2i.
Ortho2iMulVec(self, rhs, overflow_checks) ==
    AndThen(Vec2iOp(<<rhs[1] * self.scaling_x, rhs[2] * self.scaling_y>>,
                    overflow_checks),
            LAMBDA v : Vector2iAdd(IF self.swap_axes THEN <<v[2], v[1]>> ELSE v,
                                   self.offset, overflow_checks))

\* Mul<Ortho2i> for Ortho2i without the exchange of the scalings.
Ortho2iMul_no_exchange(self, rhs, overflow_checks) ==
    Ortho2iOf(NonZero(I8Op(self.scaling_x * rhs.scaling_x, overflow_checks)),
              NonZero(I8Op(self.scaling_y * rhs.scaling_y, overflow_checks)),
              self.swap_axes # rhs.swap_axes,
              Ortho2iMulVec(self, rhs.offset, overflow_checks))

\* Mul<Ortho2i> for Ortho2i.
Ortho2iMul(self, rhs, overflow_checks) ==
    Ortho2iOf(NonZero(I8Op((IF rhs.swap_axes THEN self.scaling_y ELSE self.scaling_x)
                               * rhs.scaling_x, overflow_checks)),
              NonZero(I8Op((IF rhs.swap_axes THEN self.scaling_x ELSE self.scaling_y)
                               * rhs.scaling_y, overflow_checks)),
              self.swap_axes # rhs.swap_axes,
              Ortho2iMulVec(self, rhs.offset, overflow_checks))

(***************************************************************************)
(* Mul<Rotation3> for Rotation3 (rot3.rs)                                  *)
(***************************************************************************)
\* Vector3 dot, cross, sum, multiple and norm_squared (diffvec), in f32.
Vector3Dot(a, b) == FAdd(FAdd(FMul(a[1], b[1]), FMul(a[2], b[2])), FMul(a[3], b[3]))

Vector3Cross(a, b) ==
    <<FSub(FMul(a[2], b[3]), FMul(a[3], b[2])),
      FSub(FMul(a[3], b[1]), FMul(a[1], b[3])),
      FSub(FMul(a[1], b[2]), FMul(a[2], b[1]))>>

Vector3Add(a, b) == <<FAdd(a[1], b[1]), FAdd(a[2], b[2]), FAdd(a[3], b[3])>>

Vector3Scale(s, v) == <<FMul(s, v[1]), FMul(s, v[2]), FMul(s, v[3])>>

Vector3NormSquared(v) == Vector3Dot(v, v)

\* Mul<Rotation3>: w and x_y_z before the normalization.
mul3_w(self, rhs) == FSub(FMul(self.w, rhs.w), Vector3Dot(self.x_y_z, rhs.x_y_z))

mul3_x_y_z(self, rhs) ==
    Vector3Add(Vector3Add(Vector3Scale(self.w, rhs.x_y_z), Vector3Scale(rhs.w, self.x_y_z)),
               Vector3Cross(self.x_y_z, rhs.x_y_z))

\* Mul<Rotation3>: norm_sqr, i_norm and the returned quaternion.
mul3_norm_sqr(w, x_y_z) == FAdd(FMul(w, w), Vector3NormSquared(x_y_z))

mul3_i_norm(norm_sqr) == FDiv(F_TWO, FAdd(F_ONE, norm_sqr))

mul3_scaled(w, x_y_z, i_norm) == [x_y_z |-> Vector3Scale(i_norm, x_y_z), w |-> FMul(w, i_norm)]

mul3_normalized(w, x_y_z) == mul3_scaled(w, x_y_z, mul3_i_norm(mul3_norm_sqr(w, x_y_z)))

\* Mul<Rotation3> with the operands exchanged.
Rotation3Mul_exchanged(self, rhs) == mul3_normalized(mul3_w(rhs, self), mul3_x_y_z(rhs, self))

\* Mul<Rotation3> for Rotation3.
Rotation3Mul(self, rhs) == mul3_normalized(mul3_w(self, rhs), mul3_x_y_z(self, rhs))

\* Rotation2::angle_sin_cos: the branch taken.
angle_sin_cos_branch(self) ==
    IF FLt(FAbs(self.tan_half_angle), NORMAL_THRESHOLD) THEN "general" ELSE "limit"

\* Rotation2::inverse.
Rotation2Inverse(self) == [tan_half_angle |-> FNeg(self.tan_half_angle)]

\* PartialEq for Rotation2 (derived): the f32 comparison of tan_half_angle.
Rotation2Eq(a, b) == FEq(a.tan_half_angle, b.tan_half_angle)

(***************************************************************************)
(* State                                                                   *)
(***************************************************************************)
VARIABLES
    pc,             \* "inverse_table", "compose_table" (const evaluation), "ready"
    i,              \* the outer loop counter of the table derivations
    inverse_TABLE,  \* TABLE of Rotation3i::inverse
    compose_TABLE,  \* TABLE of Rotation3i::compose
    op,             \* the operation evaluated last
    ra, rb, rc,     \* its rotation operands
    rv,             \* its vector operand
    out             \* its result

vars == <<pc, i, inverse_TABLE, compose_TABLE, op, ra, rb, rc, rv, out>>

Coord == (-MaxCoord)..MaxCoord
Vector2i == Coord \X Coord
Vector3i == Coord \X Coord \X Coord

to_float(v) == <<IntoScalar(v[1]), IntoScalar(v[2])>>
into_float(v) == <<IntoScalar(v[1]), IntoScalar(v[2]), IntoScalar(v[3])>>

Init ==
    /\ pc = "inverse_table"
    /\ i = 0
    /\ inverse_TABLE = [a \in Rotation3i |-> XpYpZp]
    /\ compose_TABLE = [a \in Rotation3i |-> [b \in Rotation3i |-> XpYpZp]]
    /\ op = "none"
    /\ ra = 0
    /\ rb = 0
    /\ rc = 0
    /\ rv = <<>>
    /\ out = <<>>

(***************************************************************************)
(* Derivation of the Rotation3i tables (const evaluation)                  *)
(***************************************************************************)
\* The test of the inverse search: inv undoes rot on the probe.
inverse_hit(rot, inv) ==
    vec3i_eq(apply_vec3i(inv, apply_vec3i(rot, TEST)), TEST)

\* The composition search with the operands in the other order.
compose_hit_swapped(rot_a, rot_b, rot_c) ==
    vec3i_eq(apply_vec3i(rot_b, apply_vec3i(rot_a, TEST)), apply_vec3i(rot_c, TEST))

\* The test of the composition search: rot_c acts on the probe as rot_b
\* followed by rot_a.
compose_hit(rot_a, rot_b, rot_c) ==
    vec3i_eq(apply_vec3i(rot_a, apply_vec3i(rot_b, TEST)), apply_vec3i(rot_c, TEST))

\* The inner loop of the inverse derivation from candidate j on: the first
\* candidate that passes the test, or N3 when the loop runs out.
RECURSIVE inverse_search(_, _)
inverse_search(rot, j) ==
    IF j < N3
      THEN IF inverse_hit(rot, j) THEN j ELSE inverse_search(rot, j + 1)
      ELSE N3

\* The innermost loop of the composition derivation from candidate k on.
RECURSIVE compose_search(_, _, _)
compose_search(rot_a, rot_b, k) ==
    IF k < N3
      THEN IF compose_hit(rot_a, rot_b, k) THEN k ELSE compose_search(rot_a, rot_b, k + 1)
      ELSE N3

\* One iteration of the outer loop of the inverse derivation: the entry is
\* written only when the search hits.
InverseTableStep ==
    /\ pc = "inverse_table"
    /\ i < N3
    /\ LET inv == inverse_search(i, 0)
       IN  inverse_TABLE' =
               IF inv < N3 THEN [inverse_TABLE EXCEPT ![i] = inv] ELSE inverse_TABLE
    /\ i' = i + 1
    /\ UNCHANGED <<pc, compose_TABLE, op, ra, rb, rc, rv, out>>

InverseTableDone ==
    /\ pc = "inverse_table"
    /\ i = N3
    /\ pc' = "compose_table"
    /\ i' = 0
    /\ UNCHANGED <<inverse_TABLE, compose_TABLE, op, ra, rb, rc, rv, out>>

\* One iteration of the outer loop of the composition derivation: the loop
\* over rot_b, each entry written only when its search hits.
ComposeTableStep ==
    /\ pc = "compose_table"
    /\ i < N3
    /\ compose_TABLE' =
          [compose_TABLE EXCEPT ![i] =
              [rot_b \in Rotation3i |->
                  LET rot_c == compose_search(i, rot_b, 0)
                  IN  IF rot_c < N3 THEN rot_c ELSE compose_TABLE[i][rot_b]]]
    /\ i' = i + 1
    /\ UNCHANGED <<pc, inverse_TABLE, op, ra, rb, rc, rv, out>>

ComposeTableDone ==
    /\ pc = "compose_table"
    /\ i = N3
    /\ pc' = "ready"
    /\ i' = 0
    /\ UNCHANGED <<inverse_TABLE, compose_TABLE, op, ra, rb, rc, rv, out>>

\* Rotation3i::inverse and Rotation3i::compose: the table lookups.
inverse(self) == inverse_TABLE[self]
compose(a, b) == compose_TABLE[a][b]

(***************************************************************************)
(* Operations                                                              *)
(***************************************************************************)
\* Every operation is a pure function of its operands and of the two tables:
\* a behaviour evaluates one of them once the tables are there.
Idle == pc = "ready" /\ op = "none"

Eval(name, a, b, c, v, result) ==
    /\ Idle
    /\ op' = name
    /\ ra' = a
    /\ rb' = b
    /\ rc' = c
    /\ rv' = v
    /\ out' = result
    /\ UNCHANGED <<pc, i, inverse_TABLE, compose_TABLE>>

\* rot3i.rs test_compose_inverse, one iteration.
TestComposeInverse3i(a) ==
    Eval("test_compose_inverse3i", a, 0, 0, <<>>,
         <<compose(inverse(a), a), compose(a, inverse(a))>>)

\* rot3i.rs test_compose_associative, one iteration.
TestComposeAssociative3i(a, b, c) ==
    Eval("test_compose_associative3i", a, b, c, <<>>,
         <<compose(compose(a, b), c), compose(a, compose(b, c))>>)

\* (a * b) * v for a Vector3i v.
MulMulVec3i(a, b, v) ==
    Eval("mul_mul_vec3i", a, b, 0, v, apply_vec3i(compose(a, b), v))

\* a * v for a Vector3i v, and a * v.into_float().
MulVec3i(a, v) ==
    Eval("mul_vec3i", a, 0, 0, v,
         <<apply_vec3i(a, v), apply_vec3(a, into_float(v))>>)

\* rot3i.rs test_to_rot3, one iteration: a * test and b * test.
TestToRot3(a) ==
    LET b == to_rot3(a)
        test == into_float(TEST)
    IN  Eval("test_to_rot3", a, 0, 0, TEST,
             <<apply_vec3(a, test), Rotation3MulVec(b, test)>>)

\* Serialization of a Rotation3i: its tag.
Serialize3i(a) ==
    Eval("serialize3i", a, 0, 0, <<>>, Rotation3iTag[a + 1])

\* rot2i.rs test_compose_inverse, one iteration.
TestComposeInverse2i(a) ==
    Eval("test_compose_inverse2i", a, 0, 0, <<>>,
         <<mul2i(inverse2i(a), a), mul2i(a, inverse2i(a))>>)

\* rot2i.rs test_compose_associative, one iteration.
TestComposeAssociative2i(a, b, c) ==
    Eval("test_compose_associative2i", a, b, c, <<>>,
         <<mul2i(mul2i(a, b), c), mul2i(a, mul2i(b, c))>>)

\* rot2i.rs test_to_rot2 for a vector v: a * v and b * v.
TestToRot2(a, v) ==
    LET b == to_rot2(a)
        test == to_float(v)
    IN  Eval("test_to_rot2", a, 0, 0, v,
             <<apply_vec2(a, test), Rotation2MulVec(b, test)>>)

\* Serialization of a Rotation2i: its tag.
Serialize2i(a) ==
    Eval("serialize2i", a, 0, 0, <<>>, Rotation2iTag[a + 1])

\* The f32 literals 0.2 and 1.2, and f32::MAX and the least positive f32.
F_0_2 == <<13421773, -26>>
F_1_2 == <<10066330, -23>>
F_MAX == <<2^24 - 1, F_EMAX>>
F_TINY == <<1, F_EMIN>>

\* Finite scalars drawn as vector components.
ScalarSamples ==
    {F_ZERO, F_ONE, FNeg(F_ONE), F_0_2, FNeg(F_0_2), F_1_2, F_HALF,
     NORMAL_THRESHOLD, FNeg(F_MAX), F_TINY}
Vector2 == ScalarSamples \X ScalarSamples

\* The named rotations of test_consts.
NamedRotation2 ==
    [CCW_90 |-> R2_CCW_90, CW_90 |-> R2_CW_90, FLIP |-> R2_FLIP]

\* rot2.rs test_consts for one constant and a vector: constant * vec.
TestConsts(name, vec) ==
    Eval("test_consts", name, 0, 0, vec, Rotation2MulVec(NamedRotation2[name], vec))

\* tan_half_angle values drawn as operands of the composition: ordinary ones,
\* the threshold and its two neighbours in f32, and the singular ones.
TanSamples ==
    {F_ZERO, F_ONE, FNeg(F_ONE), F_1_2, F_TINY,
     <<14551914, 36>>, NORMAL_THRESHOLD, FNeg(NORMAL_THRESHOLD), <<14551916, 36>>,
     F_MAX, F_INF, FNeg(F_INF), F_NAN}

\* Rotation2 * Rotation2 for tan_half_angle x and y: the branch and the product.
MulRotation2(x, y) ==
    Eval("rot2_mul", 0, 0, 0, <<x, y>>,
         [branch |-> mul_branch(x, y),
          rot |-> Rotation2Mul([tan_half_angle |-> x], [tan_half_angle |-> y])])

\* The number of iterations of test_compose.
COMPOSE_ITERATIONS == 100

\* rot2.rs test_compose up to its loop: angle = 1.0 in rv, rot in rc, delta_rot
\* in rb; t and dt are the values tan returned.
TestComposeBegin(t, dt) ==
    Eval("test_compose", 0, [tan_half_angle |-> dt], [tan_half_angle |-> t],
         F_ONE, <<>>)

InTestCompose == pc = "ready" /\ op = "test_compose" /\ ra < COMPOSE_ITERATIONS

\* One iteration of the loop of test_compose; c and s are the values cos and
\* sin returned.  out holds vec and test_vec.
TestComposeIteration(c, s) ==
    LET angle == FAdd(rv, F_1_2)
        rot == Rotation2Mul(rc, rb)
    IN  /\ InTestCompose
        /\ ra' = ra + 1
        /\ rv' = angle
        /\ rc' = rot
        /\ out' = <<<<c, s>>, Rotation2MulVec(rot, <<F_ONE, F_ZERO>>)>>
        /\ UNCHANGED <<pc, i, inverse_TABLE, compose_TABLE, op, rb>>

\* The euler vector of test_matrix_roundtrip.
EULER == into_float(<<1, 2, 3>>)

\* rot3.rs test_matrix_roundtrip: rot and Rotation3::from_matrix(rot.into()).
TestMatrixRoundtrip(recip, t) ==
    \E rot \in {from_euler(EULER, recip, [tan_half_angle |-> t])} :
        \E mat \in {Matrix3From(rot)} :
            Eval("test_matrix_roundtrip", 0, 0, 0, <<recip, t>>, <<rot, from_matrix(mat)>>)

\* Values drawn as diagonal entries of the matrix given to from_matrix.
DiagSamples ==
    {FNeg(F_ONE), FNeg(F_HALF), FNeg(F_0_2), F_ZERO, F_TINY, F_0_2, F_HALF, F_ONE}

\* The matrix with the diagonal d and zeros elsewhere.
DiagonalMatrix3(d) ==
    [x |-> <<d[1], F_ZERO, F_ZERO>>,
     y |-> <<F_ZERO, d[2], F_ZERO>>,
     z |-> <<F_ZERO, F_ZERO, d[3]>>]

\* Rotation3::from_matrix on a matrix with the diagonal d: the branch and the
\* quaternion.
FromMatrix(d) ==
    Eval("from_matrix", 0, 0, 0, d,
         [branch |-> from_matrix_branch(DiagonalMatrix3(d)),
          rot |-> from_matrix(DiagonalMatrix3(d))])

\* The Box2i values that are constants: Box2i::default() and Box2i::ALL.
Box2iConstant == [default |-> Box2iDefault, ALL |-> ALL]

BoxConstant(name) ==
    Eval("box_constant", name, 0, 0, <<>>, [ok |-> TRUE, box |-> Box2iConstant[name]])

\* Box2i::only(point).
BoxOnly(point) ==
    Eval("only", 0, 0, 0, <<point>>, [ok |-> TRUE, box |-> only(point)])

\* Box2i::from_min_max(min, max).
BoxFromMinMax(min, max) ==
    Eval("from_min_max", 0, 0, 0, <<min, max>>, from_min_max(min, max))

\* Box2i::from_min_size(min, sz) and the size() of the result, in a build
\* with or without overflow checks.
BoxFromMinSize(min, sz, overflow_checks) ==
    LET r == from_min_size(min, sz)
    IN  Eval("from_min_size", 0, 0, 0, <<min, sz, overflow_checks>>,
             [ok |-> TRUE, box |-> r, size |-> size(r, overflow_checks)])

\* The valid boxes: those from_min_max returns.
ValidBox2i ==
    {from_min_max(min, max).box :
        <<min, max>> \in {mm \in Point2i \X Point2i : from_min_max(mm[1], mm[2]).ok}}

\* b.size() for a valid box b, in a build with or without overflow checks.
BoxSize(b, overflow_checks) ==
    Eval("size", 0, 0, 0, <<b, overflow_checks>>, size(b, overflow_checks))

\* Boxes drawn as operands of overlaps and contains: the valid boxes with
\* every coordinate at an end of the range or next to zero.
EdgeCoord == {I_MIN, -1, 0, I_MAX}
EdgeBox2i == {b \in ValidBox2i : \A n \in 1..2 : b.min[n] \in EdgeCoord /\ b.max[n] \in EdgeCoord}

\* a.overlaps(b).
BoxOverlaps(a, b) ==
    Eval("overlaps", 0, 0, 0, <<a, b>>, overlaps(a, b))

\* b.contains(point).
BoxContains(b, point) ==
    Eval("contains", 0, 0, 0, <<b, point>>, contains(b, point))

\* The four accessors of a Size2i.
SizeAccessors(sz) ==
    Eval("size_accessors", 0, 0, 0, <<sz>>,
         [x |-> Size2i_x(sz), y |-> Size2i_y(sz),
          x_minus_1 |-> Size2i_x_minus_1(sz), y_minus_1 |-> Size2i_y_minus_1(sz)])

\* size2i(x, y).
MakeSize2i(x, y) ==
    Eval("size2i", 0, 0, 0, <<x, y>>, size2i(x, y))

\* The Ortho2i values drawn as operands: every combination of the scalings
\* -1, 1 and i8::MIN, with and without exchange, of two offsets.
Ortho2iScalings == {I8_MIN, -1, 1}
Ortho2iOffsets == {<<0, 0>>, <<1, -1>>}
Ortho2iSamples ==
    {Ortho2i(sx, sy, swap, off) :
        sx \in Ortho2iScalings, sy \in Ortho2iScalings,
        swap \in BOOLEAN, off \in Ortho2iOffsets}

\* (a * b) * c and a * (b * c) for Ortho2i, as test_compose_ortho compares
\* them, in a build with or without overflow checks.
Ortho2iMul3(a, b, c, overflow_checks) ==
    [lhs |-> AndThen(Ortho2iMul(a, b, overflow_checks),
                     LAMBDA ab : Ortho2iMul(ab, c, overflow_checks)),
     rhs |-> AndThen(Ortho2iMul(b, c, overflow_checks),
                     LAMBDA bc : Ortho2iMul(a, bc, overflow_checks))]

TestComposeOrtho(a, b, c, overflow_checks) ==
    Eval("test_compose_ortho", a, b, c, <<overflow_checks>>,
         Ortho2iMul3(a, b, c, overflow_checks))

\* Vector2i and Motion2i values drawn as operands on i32: every coordinate
\* at an end of the range or next to zero.
EdgePoint2i == EdgeCoord \X EdgeCoord
EdgeMotion2i == {Motion2i(r, off) : r \in Rotation2i, off \in EdgePoint2i}

\* Ortho2i::from(m) * x and m * x.
OrthoFromMotionVec(m, x, overflow_checks) ==
    Eval("ortho_from_motion", 0, 0, 0, <<m, x, overflow_checks>>,
         [ortho |-> Ortho2iMulVec(Ortho2iFrom(m), x, overflow_checks),
          motion |-> Motion2iMulVec(m, x, overflow_checks)])

\* (a * b) * x and a * (b * x) for Ortho2i a and b.
Ortho2iMulMulVec(a, b, x, overflow_checks) ==
    [lhs |-> AndThen(Ortho2iMul(a, b, overflow_checks),
                     LAMBDA ab : Ortho2iMulVec(ab, x, overflow_checks)),
     rhs |-> AndThen(Ortho2iMulVec(b, x, overflow_checks),
                     LAMBDA bx : Ortho2iMulVec(a, bx, overflow_checks))]

OrthoMulMulVec(a, b, x, overflow_checks) ==
    Eval("ortho_mul_mul_vec", a, b, 0, <<x, overflow_checks>>,
         Ortho2iMulMulVec(a, b, x, overflow_checks))

\* Ortho2i::scale(x, y) and the image of v under the result.
OrthoScale(x, y, v, overflow_checks) ==
    Eval("scale", 0, 0, 0, <<x, y, v, overflow_checks>>,
         [transform |-> scale(x, y),
          image |-> AndThen(scale(x, y),
                            LAMBDA t : Ortho2iMulVec(t, v, overflow_checks))])

\* a * b and a.inverse() for Rotation2i.
Compose2i(a, b) ==
    Eval("compose2i", a, b, 0, <<>>, [mul |-> mul2i(a, b), inverse |-> inverse2i(a)])

\* (a * b) * v and a * (b * v) for Rotation2i a and b and a Vector2i v.
MulMulVec2i(a, b, v, overflow_checks) ==
    Eval("mul_mul_vec2i", a, b, 0, <<v, overflow_checks>>,
         [lhs |-> Rotation2iMulVec(mul2i(a, b), v, overflow_checks),
          rhs |-> AndThen(Rotation2iMulVec(b, v, overflow_checks),
                          LAMBDA bv : Rotation2iMulVec(a, bv, overflow_checks))])

\* a * b and a.inverse() for Rotation3i by the table lookup, and by the search
\* repeated for this call.
ComposeBySearch(a, b) ==
    Eval("compose_by_search", a, b, 0, <<>>, <<compose(a, b), compose_search(a, b, 0)>>)

InverseBySearch(a) ==
    Eval("inverse_by_search", a, 0, 0, <<>>, <<inverse(a), inverse_search(a, 0)>>)

\* Quaternions with components that are multiples of 1/2: the units 1, i, j,
\* k and (1 + i + j + k) / 2 with their signs, and two that are not of unit
\* norm; and the quaternions of three Rotation3i variants.
Rotation3Samples ==
    {new_unchecked(s[1], s[2], s[3], s[4]) :
        s \in {<<F_ONE, F_ZERO, F_ZERO, F_ZERO>>, <<F_ZERO, F_ONE, F_ZERO, F_ZERO>>,
               <<F_ZERO, F_ZERO, F_ONE, F_ZERO>>, <<F_ZERO, F_ZERO, F_ZERO, F_ONE>>,
               <<FNeg(F_ONE), F_ZERO, F_ZERO, F_ZERO>>, <<F_ZERO, F_ZERO, FNeg(F_ONE), F_ZERO>>,
               <<F_HALF, F_HALF, F_HALF, F_HALF>>, <<F_HALF, FNeg(F_HALF), F_HALF, FNeg(F_HALF)>>,
               <<FNeg(F_HALF), F_HALF, F_HALF, F_HALF>>,
               <<F_ONE, F_ONE, F_ZERO, F_ZERO>>, <<F_HALF, F_ZERO, F_ZERO, F_ZERO>>,
               <<F_TWO, F_ONE, FNeg(F_ONE), F_HALF>>}}
    \cup {to_rot3(r) : r \in {YpXnZp, XpZnYp, ZpXpYp}}

\* a * b for Rotation3, with the intermediate values of the multiplication.
MulRotation3(a, b) ==
    Eval("mul3", a, b, 0, <<>>,
         [w |-> mul3_w(a, b), x_y_z |-> mul3_x_y_z(a, b),
          norm_sqr |-> mul3_norm_sqr(mul3_w(a, b), mul3_x_y_z(a, b)),
          i_norm |-> mul3_i_norm(mul3_norm_sqr(mul3_w(a, b), mul3_x_y_z(a, b))),
          product |-> Rotation3Mul(a, b)])

\* One tan_half_angle t as the left and as the right operand of a
\* composition with the identity, and in angle_sin_cos: the branches taken.
ClassifyTan(t) ==
    Eval("classify_tan", 0, 0, 0, <<t>>,
         [mul_lhs |-> mul_branch(t, F_ZERO),
          mul_rhs |-> mul_branch(F_ZERO, t),
          sin_cos_branch |-> angle_sin_cos_branch([tan_half_angle |-> t]),
          sin_cos |-> angle_sin_cos([tan_half_angle |-> t])])

\* The conversion of a product and of an inverse of Rotation2i, and the
\* product and the inverse of the conversions.
ConvertCompose2i(a, b) ==
    Eval("convert_compose2i", a, b, 0, <<>>,
         [from_mul |-> to_rot2(mul2i(a, b)),
          mul_from |-> Rotation2Mul(to_rot2(a), to_rot2(b)),
          from_inverse |-> to_rot2(inverse2i(a)),
          inverse_from |-> Rotation2Inverse(to_rot2(a))])

\* m.inverse(), m.inverse() * m and m * m.inverse().
InvertMotion2i(m, overflow_checks) ==
    Eval("motion_inverse", 0, 0, 0, <<m, overflow_checks>>,
         [inverse |-> Motion2iInverse(m, overflow_checks),
          left |-> AndThen(Motion2iInverse(m, overflow_checks),
                           LAMBDA n : Motion2iMul(n, m, overflow_checks)),
          right |-> AndThen(Motion2iInverse(m, overflow_checks),
                            LAMBDA n : Motion2iMul(m, n, overflow_checks))])

MotionOffsets == {<<0, 0>>, <<1, 0>>, <<-1, I_MAX>>, <<I_MIN, 0>>}
Motion2iSamples == {Motion2i(r, off) : r \in Rotation2i, off \in MotionOffsets}

\* (a * b) * v and a * (b * v) for Motion2i.
MotionMulMulVec(a, b, v, overflow_checks) ==
    Eval("motion_mul_mul_vec", a, b, 0, <<v, overflow_checks>>,
         [lhs |-> AndThen(Motion2iMul(a, b, overflow_checks),
                          LAMBDA ab : Motion2iMulVec(ab, v, overflow_checks)),
          rhs |-> AndThen(Motion2iMulVec(b, v, overflow_checks),
                          LAMBDA bv : Motion2iMulVec(a, bv, overflow_checks))])

Next ==
    \/ InverseTableStep
    \/ InverseTableDone
    \/ ComposeTableStep
    \/ ComposeTableDone
    \/ Idle /\ \E a \in Rotation3i : TestComposeInverse3i(a)
    \/ Idle /\ \E a, b, c \in Rotation3i : TestComposeAssociative3i(a, b, c)
    \/ Idle /\ \E a, b \in Rotation3i : \E v \in Vector3i : MulMulVec3i(a, b, v)
    \/ Idle /\ \E a \in Rotation3i : \E v \in Vector3i \cup {TEST} : MulVec3i(a, v)
    \/ Idle /\ \E a \in Rotation3i : TestToRot3(a)
    \/ Idle /\ \E a \in Rotation3i : Serialize3i(a)
    \/ Idle /\ \E a \in Rotation2i : TestComposeInverse2i(a)
    \/ Idle /\ \E a, b, c \in Rotation2i : TestComposeAssociative2i(a, b, c)
    \/ Idle /\ \E a \in Rotation2i : \E v \in Vector2i \cup {<<1, 2>>} : TestToRot2(a, v)
    \/ Idle /\ \E a \in Rotation2i : Serialize2i(a)
    \/ Idle /\ \E name \in DOMAIN NamedRotation2 : \E vec \in Vector2 : TestConsts(name, vec)
    \/ Idle /\ \E x, y \in TanSamples : MulRotation2(x, y)
    \/ Idle /\ \E t \in Neighbours(from_angle(F_ONE).tan_half_angle) :
                \E dt \in Neighbours(from_angle(F_1_2).tan_half_angle) :
                    TestComposeBegin(t, dt)
    \/ InTestCompose /\ \E c \in Neighbours(Cos(FAdd(rv, F_1_2))) :
                         \E s \in Neighbours(Sin(FAdd(rv, F_1_2))) :
                             TestComposeIteration(c, s)
    \/ Idle /\ \E recip \in BOOLEAN :
                \E t \in Neighbours(from_angle(Vector3Norm(EULER)).tan_half_angle) :
                    TestMatrixRoundtrip(recip, t)
    \/ Idle /\ \E dx, dy, dz \in DiagSamples : FromMatrix(<<dx, dy, dz>>)
    \/ Idle /\ \E name \in DOMAIN Box2iConstant : BoxConstant(name)
    \/ Idle /\ \E point \in Point2i : BoxOnly(point)
    \/ Idle /\ \E min, max \in Point2i : BoxFromMinMax(min, max)
    \/ Idle /\ \E min \in Point2i : \E x_minus_1, y_minus_1 \in U32 :
                \E overflow_checks \in BOOLEAN :
                    BoxFromMinSize(min, Size2i(x_minus_1, y_minus_1), overflow_checks)
    \/ Idle /\ \E b \in ValidBox2i : \E overflow_checks \in BOOLEAN :
                BoxSize(b, overflow_checks)
    \/ Idle /\ \E a, b \in EdgeBox2i : BoxOverlaps(a, b)
    \/ Idle /\ \E b \in EdgeBox2i \cup {only(q) : q \in Point2i} :
                \E point \in Point2i : BoxContains(b, point)
    \/ Idle /\ \E x_minus_1, y_minus_1 \in U32 : SizeAccessors(Size2i(x_minus_1, y_minus_1))
    \/ Idle /\ \E x, y \in U32 : MakeSize2i(x, y)
    \/ Idle /\ \E a, b, c \in Ortho2iSamples : \E overflow_checks \in BOOLEAN :
                TestComposeOrtho(a, b, c, overflow_checks)
    \/ Idle /\ \E m \in EdgeMotion2i : \E x \in EdgePoint2i :
                \E overflow_checks \in BOOLEAN :
                    OrthoFromMotionVec(m, x, overflow_checks)
    \/ Idle /\ \E a, b \in Ortho2iSamples : \E x \in EdgePoint2i :
                \E overflow_checks \in BOOLEAN :
                    OrthoMulMulVec(a, b, x, overflow_checks)
    \/ Idle /\ \E x, y \in I32 : \E v \in Vector2i : \E overflow_checks \in BOOLEAN :
                OrthoScale(x, y, v, overflow_checks)
    \/ Idle /\ \E a, b \in Rotation2i : Compose2i(a, b)
    \/ Idle /\ \E a, b \in Rotation2i : \E v \in EdgePoint2i \cup Vector2i :
                \E overflow_checks \in BOOLEAN : MulMulVec2i(a, b, v, overflow_checks)
    \/ Idle /\ \E a, b \in Rotation3i : ComposeBySearch(a, b)
    \/ Idle /\ \E a \in Rotation3i : InverseBySearch(a)
    \/ Idle /\ \E a, b \in Rotation3Samples : MulRotation3(a, b)
    \/ Idle /\ \E t \in TanSamples : ClassifyTan(t)
    \/ Idle /\ \E a, b \in Rotation2i : ConvertCompose2i(a, b)
    \/ Idle /\ \E m \in EdgeMotion2i, overflow_checks \in BOOLEAN :
          InvertMotion2i(m, overflow_checks)
    \/ Idle /\ \E a, b \in Motion2iSamples, v \in EdgePoint2i, overflow_checks \in BOOLEAN :
          MotionMulMulVec(a, b, v, overflow_checks)

Spec == Init /\ [][Next]_vars

(***************************************************************************)
(* Properties                                                              *)
(***************************************************************************)
TypeOK ==
    /\ pc \in {"inverse_table", "compose_table", "ready"}
    /\ i \in 0..N3
    /\ inverse_TABLE \in [Rotation3i -> Rotation3i]
    /\ compose_TABLE \in [Rotation3i -> [Rotation3i -> Rotation3i]]

\* C1: for every Rotation3i a, a.inverse() * a and a * a.inverse() are both
\* the identity, with inverse and * read from the derived tables.
C1_ComposeInverse3i ==
    op = "test_compose_inverse3i" => out = <<IDENTITY3i, IDENTITY3i>>

C1_Witness ==
    /\ op = "test_compose_inverse3i"
    /\ ra = ZpXpYp
    /\ inverse_TABLE[ra] = YpZpXp
    /\ out = <<IDENTITY3i, IDENTITY3i>>

\* C2: Rotation3i composition is associative: (a * b) * c = a * (b * c) for
\* every triple.
C2_ComposeAssociative3i ==
    op = "test_compose_associative3i" => out[1] = out[2]

C2_Witness ==
    /\ op = "test_compose_associative3i"
    /\ ra = YnXpZp /\ rb = XpZnYp /\ rc = ZpXpYp
    /\ compose_TABLE[ra][rb] # compose_TABLE[rb][ra]
    /\ out = <<YpZpXp, YpZpXp>>

\* C3: the derived composition table agrees with function composition on
\* every integer vector: (a * b) * v = a * (b * v), b acting first.
C3_ComposeActsAsComposition ==
    op = "mul_mul_vec3i" => out = apply_vec3i(ra, apply_vec3i(rb, rv))

C3_Witness ==
    /\ op = "mul_mul_vec3i"
    /\ ra = YpXpZn /\ rb = ZpXpYp
    /\ rv = <<1, 2, -1>>
    /\ out = apply_vec3i(ra, apply_vec3i(rb, rv))
    /\ out # apply_vec3i(rb, apply_vec3i(ra, rv))

\* The 3x3 integer matrix of a rotation, as its three columns (the images of
\* the unit vectors under apply_vec3i).
Columns3i(a) ==
    <<apply_vec3i(a, <<1, 0, 0>>), apply_vec3i(a, <<0, 1, 0>>), apply_vec3i(a, <<0, 0, 1>>)>>

Det3(m) ==
      m[1][1] * (m[2][2] * m[3][3] - m[3][2] * m[2][3])
    - m[2][1] * (m[1][2] * m[3][3] - m[3][2] * m[1][3])
    + m[3][1] * (m[1][2] * m[2][3] - m[2][2] * m[1][3])

\* Every column and every row holds exactly one non-zero entry, and it is 1 or -1.
IsSignedPermutation(m) ==
    /\ \A c \in 1..3 : \E r \in 1..3 :
          /\ m[c][r] \in {1, -1}
          /\ \A r2 \in (1..3) \ {r} : m[c][r2] = 0
    /\ \A r \in 1..3 : \E c \in 1..3 : m[c][r] # 0

MatVec3i(m, v) ==
    <<m[1][1] * v[1] + m[2][1] * v[2] + m[3][1] * v[3],
      m[1][2] * v[1] + m[2][2] * v[2] + m[3][2] * v[3],
      m[1][3] * v[1] + m[2][3] * v[2] + m[3][3] * v[3]>>

\* C4: through apply_vec3i the 24 variants are pairwise distinct signed
\* permutations of determinant +1, and apply_vec3 performs the same signed
\* permutation as apply_vec3i.
C4_ProperSignedPermutations ==
    op = "mul_vec3i" =>
        /\ IsSignedPermutation(Columns3i(ra))
        /\ Det3(Columns3i(ra)) = 1
        /\ \A b \in Rotation3i \ {ra} : Columns3i(b) # Columns3i(ra)
        /\ out[1] = MatVec3i(Columns3i(ra), rv)
        /\ out[2] = into_float(out[1])

C4_Witness ==
    /\ op = "mul_vec3i"
    /\ ra = YnZpXn
    /\ rv = <<1, 2, -1>>
    /\ out = <<<<-2, -1, -1>>, into_float(<<-2, -1, -1>>)>>

\* C5: the probe (1, 2, 3) identifies a group element: two different
\* rotations never agree on it.
C5_ProbeIdentifiesElement ==
    (op = "mul_vec3i" /\ rv = TEST) =>
        \A b \in Rotation3i \ {ra} : ~vec3i_eq(apply_vec3i(b, TEST), out[1])

C5_Witness ==
    /\ op = "mul_vec3i"
    /\ rv = TEST
    /\ ra = ZnYnXn
    /\ out[1] = <<-3, -2, -1>>

QuaternionComponents ==
    {F_ZERO, F_HALF, FNeg(F_HALF), F_ONE, FNeg(F_ONE), SQ, FNeg(SQ)}

\* C6: for every Rotation3i a, a applied to (1, 2, 3) and the quaternion
\* to_rot3(a) applied to (1, 2, 3) through its matrix agree within 1e-6 (as
\* the relative comparison of the test, and in every component absolutely),
\* and the quaternion's components are among 0, +-0.5, +-1, +-1/sqrt(2).
C6_ToRot3Agrees ==
    op = "test_to_rot3" =>
        /\ VecRelativeEq(out[1], out[2], EPSILON, F_1EM6)
        /\ VecAbsDiffEq(out[1], out[2], F_1EM6)
        /\ to_rot3(ra).w \in QuaternionComponents
        /\ \A n \in 1..3 : to_rot3(ra).x_y_z[n] \in QuaternionComponents

C6_Witness ==
    /\ op = "test_to_rot3"
    /\ ra = YpXpZn
    /\ to_rot3(ra) = new_unchecked(F_ZERO, SQ, SQ, F_ZERO)
    /\ out[1] = into_float(<<2, 1, -3>>)
    /\ VecRelativeEq(out[1], out[2], EPSILON, F_1EM6)

\* C7: for every Rotation2i a, a.inverse() * a and a * a.inverse() are both
\* the identity.
C7_ComposeInverse2i ==
    op = "test_compose_inverse2i" => out = <<IDENTITY2i, IDENTITY2i>>

C7_Witness ==
    /\ op = "test_compose_inverse2i"
    /\ ra = YpXn
    /\ inverse2i(ra) = YnXp
    /\ out = <<IDENTITY2i, IDENTITY2i>>

\* C8: Rotation2i composition is associative.
C8_ComposeAssociative2i ==
    op = "test_compose_associative2i" => out[1] = out[2]

C8_Witness ==
    /\ op = "test_compose_associative2i"
    /\ ra = YpXn /\ rb = XnYn /\ rc = XnYn
    /\ out = <<YpXn, YpXn>>

\* C9: converting a Rotation2i to Rotation2 reads the table t = 0, 1,
\* +infinity, -1 (in discriminant order), and the Rotation2 applied to a
\* vector yields the same vector as the Rotation2i applied to it.
C9_ToRot2Agrees ==
    op = "test_to_rot2" =>
        /\ to_rot2(ra).tan_half_angle = <<F_ZERO, F_ONE, F_INF, FNeg(F_ONE)>>[ra + 1]
        /\ out[2] = out[1]
        /\ VecRelativeEq(out[1], out[2], EPSILON, F_1EM6)

C9_Witness ==
    /\ op = "test_to_rot2"
    /\ ra = XnYn
    /\ rv = <<1, 2>>
    /\ out[2] = to_float(<<-1, -2>>)

Lowercase(c) ==
    CASE c = "X" -> "x"
      [] c = "Y" -> "y"
      [] c = "Z" -> "z"
      [] OTHER -> c

LowercaseName(name) == [n \in 1..Len(name) |-> Lowercase(name[n])]

\* C10: the serialized tag of every Rotation2i and Rotation3i variant is the
\* lowercase spelling of the variant's name, and the tags of one type are
\* pairwise distinct.
C10_TagsSpellNames ==
    /\ op = "serialize3i" =>
          /\ out = LowercaseName(Rotation3iName[ra + 1])
          /\ \A b \in Rotation3i \ {ra} : Rotation3iTag[b + 1] # out
    /\ op = "serialize2i" =>
          /\ out = LowercaseName(Rotation2iName[ra + 1])
          /\ \A b \in Rotation2i \ {ra} : Rotation2iTag[b + 1] # out

\* C11: CCW_90 (t = 1) maps every vector (x, y) to (-y, x), CW_90 (t = -1) to
\* (y, -x) and FLIP (t = +infinity) to (-x, -y); applied to (1.0, 0.2) they
\* yield (-0.2, 1.0), (0.2, -1.0) and (-1.0, -0.2), as the comparison of
\* test_consts requires.
C11_NamedConstants ==
    op = "test_consts" =>
        LET x == rv[1]
            y == rv[2]
            expected == CASE ra = "CCW_90" -> <<FNeg(y), x>>
                          [] ra = "CW_90" -> <<y, FNeg(x)>>
                          [] ra = "FLIP" -> <<FNeg(x), FNeg(y)>>
            literal == CASE ra = "CCW_90" -> <<FNeg(F_0_2), F_ONE>>
                         [] ra = "CW_90" -> <<F_0_2, FNeg(F_ONE)>>
                         [] ra = "FLIP" -> <<FNeg(F_ONE), FNeg(F_0_2)>>
        IN  /\ NamedRotation2[ra].tan_half_angle =
                   (CASE ra = "CCW_90" -> F_ONE
                      [] ra = "CW_90" -> FNeg(F_ONE)
                      [] ra = "FLIP" -> F_INF)
            /\ out = expected
            /\ rv = <<F_ONE, F_0_2>> => VecRelativeEq(out, literal, EPSILON, EPSILON)

C11_Witness ==
    /\ op = "test_consts"
    /\ ra = "FLIP"
    /\ rv = <<F_ONE, F_0_2>>
    /\ out = <<FNeg(F_ONE), FNeg(F_0_2)>>

\* The branch the composition must take when "normal" is decided by the
\* predicate normal(_) on a tan_half_angle, and the value of its formula.
BranchFor(normal(_), x, y) ==
    IF normal(x) /\ normal(y) THEN "general"
    ELSE IF normal(x) THEN "rhs_singular"
    ELSE IF normal(y) THEN "lhs_singular"
    ELSE "both_singular"

BelowThreshold(x) == FLt(FAbs(x), NORMAL_THRESHOLD)
AtOrBelowThreshold(x) == FLe(FAbs(x), NORMAL_THRESHOLD)

\* C12 as stated: the composition uses (x+y)/(1-xy) when both |x| and |y|
\* are below the threshold 1e18, the reciprocal form when exactly one operand
\* is not below it, and (-1/x)+(-1/y) when neither is below it.
C12_BranchBelowThreshold ==
    op = "rot2_mul" =>
        LET branch == BranchFor(BelowThreshold, rv[1], rv[2])
        IN  /\ out.branch = branch
            /\ out.rot.tan_half_angle = mul_formula(branch, rv[1], rv[2])

\* C12 amended: the composition uses (x+y)/(1-xy) when both |x| and |y| are at
\* or below the threshold 1e18; 1/(1/y - x) when only |y| exceeds it and
\* 1/(1/x - y) when only |x| exceeds it; and (-1/x)+(-1/y) when both exceed
\* it.
C12_BranchAtOrBelowThreshold ==
    op = "rot2_mul" =>
        LET branch == BranchFor(AtOrBelowThreshold, rv[1], rv[2])
        IN  /\ out.branch = branch
            /\ out.rot.tan_half_angle = mul_formula(branch, rv[1], rv[2])

C12_Witness ==
    /\ op = "rot2_mul"
    /\ rv = <<NORMAL_THRESHOLD, F_ZERO>>
    /\ out.branch = "general"
    /\ out.rot.tan_half_angle = NORMAL_THRESHOLD

\* C13: starting from from_angle(1.0) and composing with from_angle(1.2),
\* after every one of the 100 compositions the rotation applied to (1, 0)
\* equals (cos, sin) of the accumulated angle within epsilon 0.001 (the
\* relative comparison of test_compose).
C13_ComposeFidelity ==
    (op = "test_compose" /\ ra >= 1) =>
        /\ VecRelativeEq(out[1], out[2], F_1EM3, EPSILON)
        /\ VecAbsDiffEq(out[1], out[2], F_1EM3)

C13_Witness ==
    /\ op = "test_compose"
    /\ ra = COMPOSE_ITERATIONS
    /\ rc.tan_half_angle = <<8807333, -23>>
    /\ VecAbsDiffEq(out[1], out[2], F_1EM3)

\* The components w, x, y, z of a Rotation3.
Components(rot) == <<rot.w, rot.x_y_z[1], rot.x_y_z[2], rot.x_y_z[3]>>

\* C14: for the Rotation3 built by from_euler((1, 2, 3)), the conversion to a
\* Matrix3 and back by from_matrix gives a quaternion whose four components
\* are within 1e-6 of the original ones and have their signs.
C14_MatrixRoundtrip ==
    op = "test_matrix_roundtrip" =>
        /\ Rotation3AbsDiffEq(out[1], out[2], F_1EM6)
        /\ \A n \in 1..4 :
              ISign(Components(out[1])[n][1]) = ISign(Components(out[2])[n][1])

C14_Witness ==
    /\ op = "test_matrix_roundtrip"
    /\ rv = <<FALSE, <<-13557488, -22>>>>
    /\ Components(out[1]) =
          <<<<-9917051, -25>>, <<8567180, -25>>, <<8567180, -24>>, <<12850769, -24>>>>
    /\ Components(out[2]) =
          <<<<-9917051, -25>>, <<8567179, -25>>, <<8567180, -24>>, <<12850769, -24>>>>

\* The index of the diagonal entry a branch of from_matrix is built on.
BranchAxis(branch) ==
    CASE branch = "x" -> 1
      [] branch = "y" -> 2
      [] branch = "z" -> 3

\* C15: from_matrix takes the trace branch when the trace (as computed,
\* m.x.x + m.y.y + m.z.z) is positive, and otherwise the branch of a diagonal
\* entry that is at least as large as the other two, ties included; the
\* quaternion is the one that branch's formula gives.
C15_ShepperdBranch ==
    op = "from_matrix" =>
        LET trace == FAdd(FAdd(rv[1], rv[2]), rv[3])
        IN  /\ FGt(trace, F_ZERO) => out.branch = "trace"
            /\ ~FGt(trace, F_ZERO) =>
                  /\ out.branch \in {"x", "y", "z"}
                  /\ \A n \in 1..3 : FGe(rv[BranchAxis(out.branch)], rv[n])
            /\ out.rot = from_matrix_formula(out.branch, DiagonalMatrix3(rv))

C15_Witness ==
    /\ op = "from_matrix"
    /\ rv = <<FNeg(F_ONE), F_ZERO, F_ZERO>>
    /\ out.branch = "z"
    /\ out.rot = new_unchecked(F_ZERO, F_ZERO, F_ZERO, SQ)

Box2iConstructors == {"box_constant", "only", "from_min_max", "from_min_size"}

\* C16: every Box2i that Default, ALL, only, from_min_max or from_min_size
\* returns has min.x <= max.x and min.y <= max.y, so its size is positive on
\* both axes and it contains at least one point.
C16_BoxMinLeMax ==
    (op \in Box2iConstructors /\ out.ok) =>
        /\ out.box.min[1] <= out.box.max[1]
        /\ out.box.min[2] <= out.box.max[2]
        /\ out.box.max[1] - out.box.min[1] + 1 > 0
        /\ out.box.max[2] - out.box.min[2] + 1 > 0
        /\ \E p \in Point2i : contains(out.box, p)

C16_Witness ==
    /\ op = "from_min_size"
    /\ rv[1] = <<I_MAX, -1>>
    /\ rv[2] = Size2i(U_MAX, U_MAX)
    /\ out.box = Box2i(<<I_MAX, -1>>, <<I_MAX, I_MAX>>)

\* C17: from_min_max(min, max) panics exactly when min.x > max.x or
\* min.y > max.y, and otherwise returns the box whose min() and max() are the
\* given points.
C17_FromMinMaxAsserts ==
    op = "from_min_max" =>
        LET min == rv[1]
            max == rv[2]
        IN  /\ ~out.ok <=> (min[1] > max[1] \/ min[2] > max[2])
            /\ out.ok => (box_min(out.box) = min /\ box_max(out.box) = max)

C17_Witness ==
    /\ op = "from_min_max"
    /\ rv = <<<<0, 1>>, <<0, 0>>>>
    /\ ~out.ok

\* C18: for every valid Box2i b, b.size() is computed without overflow or
\* underflow (it does not panic in a build that checks for them) and has
\* x_minus_1 = max.x - min.x and y_minus_1 = max.y - min.y.
C18_SizeWithoutOverflow ==
    op = "size" =>
        LET b == rv[1]
        IN  /\ out.ok
            /\ out.size.x_minus_1 = b.max[1] - b.min[1]
            /\ out.size.y_minus_1 = b.max[2] - b.min[2]

\* C19: from_min_size(min, size) has min() = min and size() = size, for every
\* min and every size.
C19_FromMinSizeRoundtrip ==
    op = "from_min_size" =>
        /\ box_min(out.box) = rv[1]
        /\ out.size.ok
        /\ out.size.size = rv[2]

\* C20: a.overlaps(b) is true exactly when some point is contained in both a
\* and b, and equals b.overlaps(a); Box2i::ALL contains every point; and
\* Box2i::only(p) contains p and no other point.
C20_OverlapsIsCommonPoint ==
    /\ op = "overlaps" =>
          LET a == rv[1]
              b == rv[2]
          IN  /\ out <=> \E p \in Point2i : contains(a, p) /\ contains(b, p)
              /\ out <=> overlaps(b, a)
    /\ op = "contains" =>
          LET b == rv[1]
              point == rv[2]
          IN  /\ b = ALL => out
              /\ \A q \in Point2i : b = only(q) => (out <=> point = q)

C20_Witness ==
    /\ op = "overlaps"
    /\ rv = <<Box2i(<<I_MIN, I_MIN>>, <<0, 0>>), Box2i(<<0, 0>>, <<I_MAX, I_MAX>>)>>
    /\ out = TRUE

\* C21: Size2i::x() and Size2i::y() panic exactly when the stored component is
\* u32::MAX and otherwise return the stored component plus one; x_minus_1()
\* and y_minus_1() never panic and return the stored component; size2i(x, y)
\* panics exactly when x = 0 or y = 0.
C21_SizeAccessorsPanic ==
    /\ op = "size_accessors" =>
          LET sz == rv[1]
          IN  /\ out.x.ok <=> sz.x_minus_1 # U_MAX
              /\ out.x.ok => out.x.value = sz.x_minus_1 + 1
              /\ out.y.ok <=> sz.y_minus_1 # U_MAX
              /\ out.y.ok => out.y.value = sz.y_minus_1 + 1
              /\ out.x_minus_1 = [ok |-> TRUE, value |-> sz.x_minus_1]
              /\ out.y_minus_1 = [ok |-> TRUE, value |-> sz.y_minus_1]
    /\ op = "size2i" => (out.ok <=> rv[1] # 0 /\ rv[2] # 0)

C21_Witness ==
    /\ op = "size_accessors"
    /\ rv = <<Size2i(U_MAX, 0)>>
    /\ ~out.x.ok
    /\ out.y = [ok |-> TRUE, value |-> 1]
    /\ out.x_minus_1.value = U_MAX

\* No arithmetic of (a * b) * c or a * (b * c) leaves its range: neither
\* panics in a build that checks for overflow.
Ortho2iMul3InRange(a, b, c) ==
    Ortho2iMul3(a, b, c, TRUE).lhs.ok /\ Ortho2iMul3(a, b, c, TRUE).rhs.ok

\* C22: Ortho2i composition is associative: for all Ortho2i a, b, c whose
\* scaling products stay in the i8 range and whose offsets do not overflow,
\* (a * b) * c and a * (b * c) are the same Ortho2i (scalings, exchange flag
\* and offset).
C22_OrthoAssociative ==
    op = "test_compose_ortho" /\ Ortho2iMul3InRange(ra, rb, rc) =>
        /\ out.lhs.ok
        /\ out.rhs.ok
        /\ out.lhs.value = out.rhs.value

C22_Witness ==
    /\ op = "test_compose_ortho"
    /\ ra = Ortho2i(I8_MIN, -1, TRUE, <<1, -1>>)
    /\ rb = Ortho2i(-1, 1, TRUE, <<1, -1>>)
    /\ rc = Ortho2i(1, -1, TRUE, <<1, -1>>)
    /\ rv = <<TRUE>>
    /\ Ortho2iMul3InRange(ra, rb, rc)
    /\ out.lhs = OK(Ortho2i(I8_MIN, -1, TRUE, <<3, -1>>))
    /\ out.rhs = out.lhs

\* No arithmetic of (a * b) * x or a * (b * x) leaves its range.
Ortho2iMulMulVecInRange(a, b, x) ==
    Ortho2iMulMulVec(a, b, x, TRUE).lhs.ok /\ Ortho2iMulMulVec(a, b, x, TRUE).rhs.ok

\* C23: the conversion from Motion2i to Ortho2i and the composition of
\* Ortho2i preserve the action on vectors: Ortho2i::from(m) * x is m * x for
\* every Motion2i m and Vector2i x (the same vector, or a panic of both), and
\* (a * b) * x is a * (b * x) for all Ortho2i a, b and every Vector2i x when
\* nothing overflows.
C23_OrthoActsAsComposition ==
    /\ op = "ortho_from_motion" => out.ortho = out.motion
    /\ op = "ortho_mul_mul_vec" /\ Ortho2iMulMulVecInRange(ra, rb, rv[1]) =>
          /\ out.lhs.ok
          /\ out.rhs.ok
          /\ out.lhs.value = out.rhs.value

C23_Witness ==
    /\ op = "ortho_from_motion"
    /\ rv = <<Motion2i(YpXn, <<-1, 0>>), <<I_MAX, -1>>, TRUE>>
    /\ out.ortho = OK(<<0, I_MAX>>)
    /\ out.motion = out.ortho

\* C24: for every pair of non-zero i32 factors x and y, Ortho2i::scale(x, y)
\* returns without panicking a transform that maps every Vector2i v to
\* (x * v.x, y * v.y).
C24_ScaleScales ==
    op = "scale" /\ rv[1] # 0 /\ rv[2] # 0 =>
        /\ out.transform.ok
        /\ out.image = OK(<<rv[1] * rv[3][1], rv[2] * rv[3][2]>>)

\* Rotation2i composition is index addition mod 4, inverse is index negation
\* mod 4, and both give one of the four discriminants.
Compose2iIsIndexArithmetic ==
    op = "compose2i" =>
        /\ out.mul = (ra + rb) % 4
        /\ out.inverse = (-ra) % 4
        /\ out.mul \in Rotation2i
        /\ out.inverse \in Rotation2i

\* C25: Rotation2i composition is index addition mod 4 and inverse is index
\* negation mod 4, the index is always one of 0..3, and for all Rotation2i
\* a, b and every Vector2i v, (a * b) * v == a * (b * v).
C25_Rotation2iActsOnEveryVector ==
    /\ Compose2iIsIndexArithmetic
    /\ op = "mul_mul_vec2i" => out.lhs = out.rhs

\* C25 as amended: the same, with (a * b) * v == a * (b * v) for every
\* Vector2i v that has no component i32::MIN (whose negation overflows), and
\* for every v in a build without overflow checks.
C25_Rotation2iActsWithoutOverflow ==
    /\ Compose2iIsIndexArithmetic
    /\ op = "mul_mul_vec2i" /\ (I_MIN \notin {rv[1][1], rv[1][2]} \/ ~rv[2]) =>
          /\ out.lhs.ok
          /\ out.rhs.ok
          /\ out.lhs = out.rhs

C25_Witness ==
    /\ op = "mul_mul_vec2i"
    /\ ra = YnXp /\ rb = YpXn
    /\ rv = <<<<I_MAX, -1>>, TRUE>>
    /\ out.lhs = OK(<<I_MAX, -1>>)
    /\ out.rhs = out.lhs

\* The rows of the tables the derivation has been through.
InverseRowDone(a) == pc # "inverse_table" \/ a < i
ComposeRowDone(a) == pc = "ready" \/ (pc = "compose_table" /\ a < i)

\* C26: the derivation search always succeeds and is unambiguous: for every
\* a exactly one candidate c has c(a(probe)) = probe and for every pair (a, b)
\* exactly one candidate c has c(probe) = a(b(probe)); every entry the
\* derivation has been through is the candidate its search found, none is a
\* placeholder left by a failed search; and a lookup returns the element the
\* search repeated for that call returns.
C26_SearchSucceedsUniquely ==
    /\ op = "none" =>
          /\ \A a \in Rotation3i :
                /\ Cardinality({c \in Rotation3i : inverse_hit(a, c)}) = 1
                /\ InverseRowDone(a) =>
                      /\ inverse_search(a, 0) < N3
                      /\ inverse_TABLE[a] = inverse_search(a, 0)
                      /\ inverse_hit(a, inverse_TABLE[a])
          /\ \A a, b \in Rotation3i :
                /\ Cardinality({c \in Rotation3i : compose_hit(a, b, c)}) = 1
                /\ ComposeRowDone(a) =>
                      /\ compose_search(a, b, 0) < N3
                      /\ compose_TABLE[a][b] = compose_search(a, b, 0)
                      /\ compose_hit(a, b, compose_TABLE[a][b])
    /\ op \in {"compose_by_search", "inverse_by_search"} =>
          /\ out[1] = out[2]
          /\ out[1] \in Rotation3i

C26_Witness ==
    /\ op = "compose_by_search"
    /\ ra = YnXpZp /\ rb = XpZnYp
    /\ out[1] = out[2]
    /\ out[1] \notin {ra, rb, XpYpZp}
    /\ compose_TABLE[XpYpZp][XpYpZp] = XpYpZp
    /\ compose_hit(XpYpZp, XpYpZp, XpYpZp)

\* The Hamilton product of the quaternions p and q, component by component.
HamiltonW(p, q) ==
    FSub(FMul(p.w, q.w),
         FAdd(FAdd(FMul(p.x_y_z[1], q.x_y_z[1]), FMul(p.x_y_z[2], q.x_y_z[2])),
              FMul(p.x_y_z[3], q.x_y_z[3])))

HamiltonVec(p, q, n, n1, n2) ==
    FAdd(FAdd(FMul(p.w, q.x_y_z[n]), FMul(q.w, p.x_y_z[n])),
         FSub(FMul(p.x_y_z[n1], q.x_y_z[n2]), FMul(p.x_y_z[n2], q.x_y_z[n1])))

\* C27: a * b for Rotation3 is the Hamilton product (w, vec) of a and b with
\* both parts multiplied by 2 / (1 + norm_sqr), norm_sqr = w^2 + |vec|^2 of
\* the product before the scaling; when norm_sqr is 1 the factor is exactly 1
\* and the product is returned unchanged.
C27_HamiltonProductScaled ==
    op = "mul3" =>
        LET w == HamiltonW(ra, rb)
            x == HamiltonVec(ra, rb, 1, 2, 3)
            y == HamiltonVec(ra, rb, 2, 3, 1)
            z == HamiltonVec(ra, rb, 3, 1, 2)
            norm_sqr == FAdd(FMul(w, w), FAdd(FAdd(FMul(x, x), FMul(y, y)), FMul(z, z)))
            factor == FDiv(F_TWO, FAdd(F_ONE, norm_sqr))
        IN  /\ out.w = w /\ out.x_y_z = <<x, y, z>>
            /\ out.norm_sqr = norm_sqr
            /\ out.i_norm = factor
            /\ out.product = new_unchecked(FMul(w, factor), FMul(x, factor), FMul(y, factor), FMul(z, factor))
            /\ norm_sqr = F_ONE =>
                  /\ factor = F_ONE
                  /\ out.product = new_unchecked(w, x, y, z)

\* i * j = k, a product of unit norm, returned unchanged.
C27_Witness ==
    /\ op = "mul3"
    /\ ra = new_unchecked(F_ZERO, F_ONE, F_ZERO, F_ZERO)
    /\ rb = new_unchecked(F_ZERO, F_ZERO, F_ONE, F_ZERO)
    /\ out.norm_sqr = F_ONE
    /\ out.i_norm = F_ONE
    /\ out.product = new_unchecked(F_ZERO, F_ZERO, F_ZERO, F_ONE)

\* C28: for every tan_half_angle t, the composition treats t as a normal
\* operand (on either side) exactly when angle_sin_cos evaluates t with the
\* general formula, the threshold itself included.
C28_ClassifiesConsistently ==
    op = "classify_tan" =>
        /\ out.mul_lhs = "general" <=> out.sin_cos_branch = "general"
        /\ out.mul_rhs = "general" <=> out.sin_cos_branch = "general"

\* C29: the conversion from Rotation2i to Rotation2 is a homomorphism: for
\* all Rotation2i a and b the conversion of a * b equals the product of the
\* conversions and the conversion of a.inverse() equals the inverse of the
\* conversion, under the equality of Rotation2.
C29_ConversionIsHomomorphism ==
    op = "convert_compose2i" =>
        /\ Rotation2Eq(out.from_mul, out.mul_from)
        /\ Rotation2Eq(out.from_inverse, out.inverse_from)

\* The offsets whose negation and whose sum with their negation do not
\* overflow: no component is i32::MIN.
OffsetInRange(m) == I_MIN \notin {m.offset[1], m.offset[2]}

C30_InverseLaw ==
    (op = "motion_inverse" /\ OffsetInRange(rv[1])) =>
        /\ out.inverse.ok
        /\ out.left = OK(Motion2iIdentity)
        /\ out.right = OK(Motion2iIdentity)

\* C30 as stated: for every Motion2i m with offset components in a range
\* where negation and addition do not overflow, m.inverse() * m and
\* m * m.inverse() are the identity; and for all Motion2i a, b and every
\* Vector2i v, (a * b) * v is a * (b * v).
C30_Motion2iInvertibleActsOnEveryVector ==
    /\ C30_InverseLaw
    /\ op = "motion_mul_mul_vec" => out.lhs = out.rhs

\* C30 amended: the inverse law as stated; and (a * b) * v is a * (b * v) for
\* all Motion2i a, b and Vector2i v for which neither side overflows (without
\* overflow checks nothing panics and the two sides are equal for every v).
C30_Motion2iInvertibleActsWithoutOverflow ==
    /\ C30_InverseLaw
    /\ (op = "motion_mul_mul_vec" /\ out.lhs.ok /\ out.rhs.ok) => out.lhs = out.rhs
    /\ (op = "motion_mul_mul_vec" /\ ~rv[2]) => (out.lhs.ok /\ out.rhs.ok)

C30_Witness ==
    /\ op = "motion_inverse"
    /\ rv = <<Motion2i(YpXn, <<-1, I_MAX>>), TRUE>>
    /\ out.inverse = OK(Motion2i(YnXp, <<-I_MAX, -1>>))
    /\ out.left = OK(Motion2iIdentity)
    /\ out.right = OK(Motion2iIdentity)

====
